---- MODULE Spec2Model ----
(***************************************************************************)
(* Model of the nettefatura client (package nettefatura): the customer     *)
(* identity resolution of CreateCustomerOrGetExisting, the CreateCustomer  *)
(* request it starts with, the token refresh, the recipient listing, the   *)
(* recipient detail scrape and the similarity scoring used for ranking;    *)
(* the parsing of the create response and the similarity functions applied *)
(* on their own; and the mutating calls (Login, CreateCustomer,            *)
(* CreateInvoice, CreateInvoiceRaw) of one or two goroutines that share    *)
(* the token field of one Client.                                          *)
(*                                                                         *)
(* Go strings are sequences of code points (named by short ASCII strings:   *)
(* "I." is U+0130, "i-" is U+0131, "o:" is U+00F6);                        *)
(* Utf8 gives the bytes of a code point, and the byte-indexed parts of the *)
(* source (len, s[i]) work on those bytes.  Error texts are sequences of   *)
(* words, so strings.Contains is a contiguous sub-sequence test.  Scores   *)
(* are exact fractions [num, den] compared by cross multiplication.        *)
(***************************************************************************)
EXTENDS Integers, Sequences, FiniteSets, TLC

(***************************************************************************)
(* Strings                                                                 *)
(***************************************************************************)

\* unicode.IsSpace on the code points the model uses
IsSpace(c) == c \in {" ", "\t"}

\* unicode.ToLower on the code points the model uses (simple case mapping)
LowerRune(c) ==
    CASE c = "A" -> "a"
      [] c = "B" -> "b"
      [] c = "L" -> "l"
      [] c = "I" -> "i"
      [] c = "I." -> "i"
      [] c = "E" -> "e"
      [] c = "K" -> "k"
      [] c = "M" -> "m"
      [] c = "O" -> "o"
      [] c = "O:" -> "o:"
      [] c = "R" -> "r"
      [] c = "U" -> "u"
      [] c = "Z" -> "z"
      [] OTHER -> c

\* UTF-8 encoding of a code point
Utf8(c) ==
    CASE c = "a" -> <<97>>
      [] c = "b" -> <<98>>
      [] c = "c" -> <<99>>
      [] c = "i" -> <<105>>
      [] c = "l" -> <<108>>
      [] c = "v" -> <<118>>
      [] c = "e" -> <<101>>
      [] c = "x" -> <<120>>
      [] c = "A" -> <<65>>
      [] c = "B" -> <<66>>
      [] c = "L" -> <<76>>
      [] c = "I" -> <<73>>
      [] c = " " -> <<32>>
      [] c = "\t" -> <<9>>
      [] c = "i-" -> <<196, 177>>
      [] c = "I." -> <<196, 176>>
      [] c = "o:" -> <<195, 182>>
      [] c = "0" -> <<48>>
      [] c = "1" -> <<49>>
      [] c = "2" -> <<50>>
      [] c = "3" -> <<51>>
      [] c = "4" -> <<52>>
      [] c = "5" -> <<53>>
      [] c = "6" -> <<54>>
      [] c = "7" -> <<55>>
      [] c = "8" -> <<56>>
      [] c = "9" -> <<57>>
      [] OTHER -> <<63>>

RECURSIVE Bytes(_)
\* the byte sequence of a Go string
Bytes(s) == IF s = <<>> THEN <<>> ELSE Utf8(Head(s)) \o Bytes(Tail(s))

\* strings.ToLower
ToLower(s) == [i \in 1..Len(s) |-> LowerRune(s[i])]

RECURSIVE TrimLeft(_)
TrimLeft(s) == IF s # <<>> /\ IsSpace(Head(s)) THEN TrimLeft(Tail(s)) ELSE s

RECURSIVE TrimRight(_)
TrimRight(s) ==
    IF s # <<>> /\ IsSpace(s[Len(s)]) THEN TrimRight(SubSeq(s, 1, Len(s) - 1)) ELSE s

\* strings.TrimSpace
TrimSpace(s) == TrimRight(TrimLeft(s))

\* strings.Contains on texts (sequences of words)
Contains(text, sub) ==
    \E i \in 1..(Len(text) - Len(sub) + 1) : SubSeq(text, i, i + Len(sub) - 1) = sub

Digits == <<"0", "1", "2", "3", "4", "5", "6", "7", "8", "9">>

IsDigit(c) == \E d \in 1..10 : Digits[d] = c

DigitVal(c) == (CHOOSE d \in 1..10 : Digits[d] = c) - 1

RECURSIVE Itoa(_)
\* fmt.Sprintf("%d", n) for n >= 0
Itoa(n) == IF n < 10 THEN <<Digits[n + 1]>> ELSE Itoa(n \div 10) \o <<Digits[(n % 10) + 1]>>

RECURSIVE ScanDigits(_, _)
\* value of the leading run of digits of s, acc the value read so far
ScanDigits(s, acc) ==
    IF s # <<>> /\ IsDigit(Head(s))
    THEN ScanDigits(Tail(s), acc * 10 + DigitVal(Head(s)))
    ELSE acc

\* parseIntOrZero: fmt.Sscanf(s, "%d", &result) skips leading space, reads the
\* leading digits and leaves result 0 when there are none
parseIntOrZero(s) == ScanDigits(TrimLeft(s), 0)

(***************************************************************************)
(* Similarity                                                              *)
(***************************************************************************)

\* the largest of three integers
max3(a, b, c) == IF a > b THEN (IF a > c THEN a ELSE c) ELSE (IF b > c THEN b ELSE c)

\* min leaving out its second argument, the insertion
minNoInsertion(a, b, c) == IF a < c THEN a ELSE c

\* min of three integers
min(a, b, c) == IF a < b THEN (IF a < c THEN a ELSE c) ELSE (IF b < c THEN b ELSE c)

RECURSIVE FillRow(_, _, _, _, _)
\* one row i of the matrix, filled for j = 1..Len(b2) from the row above
FillRow(prev, b1, b2, i, row) ==
    LET j == Len(row)
    IN  IF j > Len(b2) THEN row
        ELSE LET cost == IF b1[i] # b2[j] THEN 1 ELSE 0
                 cell == min(prev[j + 1] + 1, row[j] + 1, prev[j] + cost)
             IN  FillRow(prev, b1, b2, i, Append(row, cell))

RECURSIVE FillMatrix(_, _, _, _)
FillMatrix(prev, b1, b2, i) ==
    IF i > Len(b1) THEN prev
    ELSE FillMatrix(FillRow(prev, b1, b2, i, <<i>>), b1, b2, i + 1)

\* levenshteinDistance over the bytes of the two strings
levenshteinDistance(s1, s2) ==
    LET b1 == Bytes(s1)
        b2 == Bytes(s2)
    IN  IF Len(b1) = 0 THEN Len(b2)
        ELSE IF Len(b2) = 0 THEN Len(b1)
        ELSE FillMatrix([j \in 1..(Len(b2) + 1) |-> j - 1], b1, b2, 1)[Len(b2) + 1]

\* calculateSimilarityScore testing for an empty string before testing equality
calculateSimilarityScoreEmptyFirst(a, b) ==
    LET s1 == ToLower(TrimSpace(a))
        s2 == ToLower(TrimSpace(b))
        longer == IF Len(Bytes(s1)) < Len(Bytes(s2)) THEN s2 ELSE s1
        shorter == IF Len(Bytes(s1)) < Len(Bytes(s2)) THEN s1 ELSE s2
        longerLength == Len(Bytes(longer))
    IN  IF s1 = <<>> \/ s2 = <<>> THEN [num |-> 0, den |-> 1]
        ELSE IF s1 = s2 THEN [num |-> 1, den |-> 1]
        ELSE [num |-> longerLength - levenshteinDistance(longer, shorter),
              den |-> longerLength]

\* calculateSimilarityScore as a fraction [num, den]
calculateSimilarityScore(a, b) ==
    LET s1 == ToLower(TrimSpace(a))
        s2 == ToLower(TrimSpace(b))
        longer == IF Len(Bytes(s1)) < Len(Bytes(s2)) THEN s2 ELSE s1
        shorter == IF Len(Bytes(s1)) < Len(Bytes(s2)) THEN s1 ELSE s2
        longerLength == Len(Bytes(longer))
    IN  IF s1 = s2 THEN [num |-> 1, den |-> 1]
        ELSE IF s1 = <<>> \/ s2 = <<>> THEN [num |-> 0, den |-> 1]
        ELSE [num |-> longerLength - levenshteinDistance(longer, shorter),
              den |-> longerLength]

(***************************************************************************)
(* Locality lookup: provinces and districts                                *)
(* A dataset is [cities, districts]: cities a sequence of [ID, Name],      *)
(* districts a function from province ids to sequences of [ID, Name].      *)
(***************************************************************************)

\* the replacer of normalizeString on one code point
ReplaceRune(c) ==
    CASE c = "i-" -> "i"
      [] c = "o:" -> "o"
      [] c = "I." -> "i"
      [] c = "I" -> "i"
      [] c = "O:" -> "o"
      [] OTHER -> c

\* normalizeString: ToLower, TrimSpace, then the replacer
normalizeString(s) ==
    LET t == TrimSpace(ToLower(s))
    IN  [i \in 1..Len(t) |-> ReplaceRune(t[i])]

\* strings.Contains on strings (sequences of code points)
ContainsStr(s, sub) ==
    \E i \in 1..(Len(s) - Len(sub) + 1) : SubSeq(s, i, i + Len(sub) - 1) = sub

\* the first of the indices hits that a loop over a slice meets, 0 when
\* there is none
FirstIndex(hits) ==
    IF hits = {} THEN 0 ELSE CHOOSE i \in hits : \A j \in hits : i <= j

Merkez == <<"M", "e", "r", "k", "e", "z">>
merkez == <<"m", "e", "r", "k", "e", "z">>

\* GetCityID comparing the names as they are written
GetCityIDExact(cities, cityName) ==
    LET k == FirstIndex({ i \in 1..Len(cities) : cities[i].Name = cityName })
    IN  IF k = 0 THEN "-1" ELSE cities[k].ID

GetCityID(cities, cityName) ==
    LET normalized == normalizeString(cityName)
        k == FirstIndex({ i \in 1..Len(cities) :
                              normalizeString(cities[i].Name) = normalized })
    IN  IF k = 0 THEN "-1" ELSE cities[k].ID

\* GetCityName returning the name of the first province of the dataset
GetCityNameOfFirst(cities, cityID) ==
    IF cities = <<>> THEN <<"-", "1">> ELSE cities[1].Name

GetCityName(cities, cityID) ==
    LET k == FirstIndex({ i \in 1..Len(cities) : cities[i].ID = cityID })
    IN  IF k = 0 THEN <<"-", "1">> ELSE cities[k].Name

GetDistrictID(data, cityID, districtName) ==
    IF cityID \notin DOMAIN data.districts THEN -1
    ELSE
    LET districts == data.districts[cityID]
        normalized == normalizeString(districtName)
        isLookingForMerkez == ContainsStr(districtName, normalizeString(Merkez))
        name(i) == normalizeString(districts[i].Name)
        found == FirstIndex({ i \in 1..Len(districts) :
                                  \/ ContainsStr(name(i), merkez) /\ isLookingForMerkez
                                  \/ name(i) = normalized })
        c == FirstIndex({ i \in 1..Len(data.cities) : data.cities[i].ID = cityID })
        cityName == IF c = 0 THEN <<>> ELSE data.cities[c].Name
        cityNameNormalized == normalizeString(cityName)
        both == FirstIndex({ i \in 1..Len(districts) :
                                 /\ ContainsStr(name(i), merkez)
                                 /\ ContainsStr(name(i), cityNameNormalized) })
        any == FirstIndex({ i \in 1..Len(districts) : ContainsStr(name(i), merkez) })
    IN  IF found # 0 THEN districts[found].ID
        ELSE IF cityName # <<>> /\ normalized = cityNameNormalized
        THEN IF both # 0 THEN districts[both].ID
             ELSE IF any # 0 THEN districts[any].ID
             ELSE -1
        ELSE -1

(***************************************************************************)
(* Inputs: the customers a caller passes and what the portal may answer    *)
(***************************************************************************)

\* longest recipient list the portal answers with, and largest initial store
MaxRows == 3

\* length parameter of the listing request of the fallback
ListLimit == 500

ali == <<"a", "l", "i">>
AliUpper == <<"A", "l", "i", " ">>
veli == <<"v", "e", "l", "i">>

addr1 == <<"a", "b", "c">>
addr2 == <<"a", "b">>
addr3 == <<" ", "A", "b", "c">>

city06 == <<"0", "6">>
city28 == <<"2", "8">>
district413 == <<"4", "1", "3">>

\* the fixed substring that signals a duplicate
DupSignal == <<"zaten", "kayitlidir">>

\* texts the portal or the transport may produce
DupText == <<"alici", "zaten", "kayitlidir">>
OtherText == <<"zaten", "gecersiz", "kayitlidir">>
EnvTexts == {DupText, OtherText}

\* the address, city and district fields that matter for ranking
loc1 == [Address |-> addr1, CityID |-> city28, DistrictID |-> district413]
loc2 == [Address |-> addr2, CityID |-> city06, DistrictID |-> <<>>]
loc3 == [Address |-> <<>>, CityID |-> <<"6">>, DistrictID |-> district413]

\* Customer: the fields of the struct the modelled code reads
Cust(name, tax, email, sending, l) ==
    [Name |-> name, TaxNumber |-> tax, Email |-> email, SendingType |-> sending,
     Address |-> l.Address, CityID |-> l.CityID, DistrictID |-> l.DistrictID]

\* the customers a caller passes: valid ones, and one for each validation
Customers ==
    { Cust(ali, "11111111111", "a@b", 1, loc1),
      Cust(ali, "11111111111", "", 2, loc2),
      Cust(ali, "11111111111", "", 0, loc3),
      Cust(AliUpper, "11111111111", "a@b", 1, loc2),
      Cust(veli, "11111111111", "", 2, loc1),
      Cust(<<>>, "11111111111", "a@b", 1, loc1),
      Cust(ali, "", "a@b", 1, loc1),
      Cust(ali, "11111111111", "", 1, loc1) }

NoCustomer ==
    [Name |-> <<>>, TaxNumber |-> "", Email |-> "", SendingType |-> 0,
     Address |-> <<>>, CityID |-> <<>>, DistrictID |-> <<>>]

\* RecipientListItem: the fields of a listing row the modelled code reads
\* (SokakAdi is what the portal's detail page shows for the row)
RowSet ==
    { [IdAlici |-> 11, AliciAdi |-> ali, IdIl |-> 28, IdIlce |-> 413, SokakAdi |-> addr1],
      [IdAlici |-> 12, AliciAdi |-> AliUpper, IdIl |-> 6, IdIlce |-> 100, SokakAdi |-> addr2],
      [IdAlici |-> 13, AliciAdi |-> ali, IdIl |-> 28, IdIlce |-> 0, SokakAdi |-> addr3],
      [IdAlici |-> 14, AliciAdi |-> veli, IdIl |-> 6, IdIlce |-> 413, SokakAdi |-> addr1] }

\* all sequences over S of length at most n
SeqsUpTo(S, n) == UNION { [1..k -> S] : k \in 0..n }

\* sequences without a repeated element
Injective(q) == \A i, j \in 1..Len(q) : q[i] = q[j] => i = j

Tokens == {"t1", "t2"}

(***************************************************************************)
(* JSON values of a response body                                          *)
(***************************************************************************)

Absent == [t |-> "absent", s |-> <<>>, n |-> 0]
Str(x) == [t |-> "str", s |-> x, n |-> 0]
Num(k) == [t |-> "num", s |-> <<>>, n |-> k]

\* string(body): the words of the body's string fields, in field order
BodyText(b) == b.error.s \o b.ErrorMessage.s \o b.IdAlici.s \o b.Message.s

NoErr == <<>>

(***************************************************************************)
(* The client's functions, as functions of the response they receive       *)
(***************************************************************************)

\* updateToken leaving the token field as it was
updateTokenKeepOld(resp, tok) ==
    IF resp.kind \in {"transport", "read"}
    THEN [token |-> tok, err |-> resp.text]
    ELSE IF resp.token = ""
    THEN [token |-> tok, err |-> <<"token bulunamadi">>]
    ELSE [token |-> tok, err |-> NoErr]

\* updateToken clearing the stored token when the refresh fails
updateTokenClearOnFail(resp, tok) ==
    IF resp.kind \in {"transport", "read"}
    THEN [token |-> "", err |-> resp.text]
    ELSE IF resp.token = ""
    THEN [token |-> "", err |-> <<"token bulunamadi">>]
    ELSE [token |-> resp.token, err |-> NoErr]

\* updateToken: the token the client holds afterwards, and the error
updateToken(resp, tok) ==
    IF resp.kind \in {"transport", "read"}
    THEN [token |-> tok, err |-> resp.text]
    ELSE IF resp.token = ""
    THEN [token |-> tok, err |-> <<"token bulunamadi">>]
    ELSE [token |-> resp.token, err |-> NoErr]

\* the validations of CreateCustomer
Validate(c) ==
    IF c.Name = <<>> THEN <<"musteri adi zorunludur">>
    ELSE IF c.TaxNumber = "" THEN <<"TC kimlik no zorunludur">>
    ELSE IF c.SendingType = 1 /\ c.Email = ""
    THEN <<"elektronik gonderim icin e-posta zorunludur">>
    ELSE NoErr

\* the form CreateCustomer posts, defaults applied
CreateForm(c, tok) ==
    [AliciAdi |-> c.Name, Vnktckn |-> c.TaxNumber, Email |-> c.Email,
     FaturaGonderimSekli |-> IF c.SendingType = 0 THEN 1 ELSE c.SendingType,
     IdIl |-> c.CityID, IdIlce |-> c.DistrictID, SokakAdi |-> c.Address,
     RequestVerificationToken |-> tok]

NoForm == CreateForm(NoCustomer, "")

\* a request as the transport sees it
Req(op, id, form) == [op |-> op, id |-> id, form |-> form]

\* ParseCreateResponse without the check that IdAlici is a number
ParseCreateResponseNoIdCheck(resp) ==
    IF resp.kind = "transport"
    THEN [id |-> <<>>, kind |-> "transport",
          err |-> <<"musteri olusturma istegi basarisiz:">> \o resp.text]
    ELSE IF resp.kind = "read"
    THEN [id |-> <<>>, kind |-> "read", err |-> <<"response okunamadi:">> \o resp.text]
    ELSE IF ~resp.json
    THEN [id |-> <<>>, kind |-> "decode",
          err |-> <<"JSON parse hatasi:", "invalid character">>]
    ELSE IF resp.error.t = "str" /\ resp.error.s # <<>>
    THEN [id |-> <<>>, kind |-> "business",
          err |-> <<"musteri olusturma hatasi:">> \o resp.error.s]
    ELSE IF resp.ErrorMessage.t = "str" /\ resp.ErrorMessage.s # <<>>
    THEN [id |-> <<>>, kind |-> "business",
          err |-> <<"musteri olusturma hatasi:">> \o resp.ErrorMessage.s]
    ELSE [id |-> IF resp.IdAlici.t = "num" THEN Itoa(resp.IdAlici.n) ELSE <<>>,
          kind |-> "ok", err |-> NoErr]

\* ParseCreateResponse reading IdAlici before the error fields
ParseCreateResponseIdFirst(resp) ==
    IF resp.kind = "transport"
    THEN [id |-> <<>>, kind |-> "transport",
          err |-> <<"musteri olusturma istegi basarisiz:">> \o resp.text]
    ELSE IF resp.kind = "read"
    THEN [id |-> <<>>, kind |-> "read", err |-> <<"response okunamadi:">> \o resp.text]
    ELSE IF ~resp.json
    THEN [id |-> <<>>, kind |-> "decode",
          err |-> <<"JSON parse hatasi:", "invalid character">>]
    ELSE IF resp.IdAlici.t = "num"
    THEN [id |-> Itoa(resp.IdAlici.n), kind |-> "ok", err |-> NoErr]
    ELSE IF resp.error.t = "str" /\ resp.error.s # <<>>
    THEN [id |-> <<>>, kind |-> "business",
          err |-> <<"musteri olusturma hatasi:">> \o resp.error.s]
    ELSE IF resp.ErrorMessage.t = "str" /\ resp.ErrorMessage.s # <<>>
    THEN [id |-> <<>>, kind |-> "business",
          err |-> <<"musteri olusturma hatasi:">> \o resp.ErrorMessage.s]
    ELSE [id |-> <<>>, kind |-> "noid",
          err |-> <<"musteri ID bulunamadi:">> \o BodyText(resp)]

\* what CreateCustomer returns for the response to its POST
ParseCreateResponse(resp) ==
    IF resp.kind = "transport"
    THEN [id |-> <<>>, kind |-> "transport",
          err |-> <<"musteri olusturma istegi basarisiz:">> \o resp.text]
    ELSE IF resp.kind = "read"
    THEN [id |-> <<>>, kind |-> "read", err |-> <<"response okunamadi:">> \o resp.text]
    ELSE IF ~resp.json
    THEN [id |-> <<>>, kind |-> "decode",
          err |-> <<"JSON parse hatasi:", "invalid character">>]
    ELSE IF resp.error.t = "str" /\ resp.error.s # <<>>
    THEN [id |-> <<>>, kind |-> "business",
          err |-> <<"musteri olusturma hatasi:">> \o resp.error.s]
    ELSE IF resp.ErrorMessage.t = "str" /\ resp.ErrorMessage.s # <<>>
    THEN [id |-> <<>>, kind |-> "business",
          err |-> <<"musteri olusturma hatasi:">> \o resp.ErrorMessage.s]
    ELSE IF resp.IdAlici.t = "num"
    THEN [id |-> Itoa(resp.IdAlici.n), kind |-> "ok", err |-> NoErr]
    ELSE [id |-> <<>>, kind |-> "noid",
          err |-> <<"musteri ID bulunamadi:">> \o BodyText(resp)]

\* what CreateCustomer returns when it stops before its POST; NoErr when it goes on
BeforePost(t, c) ==
    IF t.err # NoErr
    THEN [id |-> <<>>, kind |-> "token", err |-> <<"token guncellenemedi:">> \o t.err]
    ELSE IF Validate(c) # NoErr
    THEN [id |-> <<>>, kind |-> "validation", err |-> Validate(c)]
    ELSE [id |-> <<>>, kind |-> "ok", err |-> NoErr]

\* IsDuplicate comparing the whole text instead of searching it
IsDuplicateWholeText(err) == err = DupSignal

\* IsDuplicate searching for the first word of the substring only
IsDuplicateFirstWord(err) == Contains(err, <<"zaten">>)

\* the test of CreateCustomerOrGetExisting on the error of CreateCustomer
IsDuplicate(err) == Contains(err, DupSignal)

\* what GetRecipientList returns for the response to its POST
GetRecipientList(resp) ==
    IF resp.kind = "transport"
    THEN [Data |-> <<>>, err |-> <<"musteri listesi istegi basarisiz:">> \o resp.text]
    ELSE IF resp.kind = "read"
    THEN [Data |-> <<>>, err |-> <<"response okunamadi:">> \o resp.text]
    ELSE IF ~resp.json
    THEN [Data |-> <<>>, err |-> <<"JSON parse hatasi:", "invalid character">>]
    ELSE [Data |-> resp.data, err |-> NoErr]

\* the case-folded, trimmed name
NormName(n) == ToLower(TrimSpace(n))

\* MatchByName without the comparison of names
MatchAll(data, c) == data

RECURSIVE MatchByCity(_, _)
\* MatchByName comparing the city of a row instead of its name
MatchByCity(data, c) ==
    IF data = <<>> THEN <<>>
    ELSE IF Head(data).IdIl = parseIntOrZero(c.CityID)
    THEN <<Head(data)>> \o MatchByCity(Tail(data), c)
    ELSE MatchByCity(Tail(data), c)

RECURSIVE MatchByName(_, _)
\* the rows of the listing whose name matches the customer's, in listing order
MatchByName(data, c) ==
    IF data = <<>> THEN <<>>
    ELSE IF NormName(Head(data).AliciAdi) = NormName(c.Name)
    THEN <<Head(data)>> \o MatchByName(Tail(data), c)
    ELSE MatchByName(Tail(data), c)

\* GetRecipientDetail filling DistrictID with a district of the page
GetRecipientDetailWithDistrict(resp) ==
    IF resp.kind = "transport"
    THEN [Address |-> <<>>, CityID |-> <<>>, DistrictID |-> <<>>,
          err |-> <<"musteri detay istegi basarisiz:">> \o resp.text]
    ELSE IF resp.kind = "read"
    THEN [Address |-> <<>>, CityID |-> <<>>, DistrictID |-> <<>>,
          err |-> <<"response okunamadi:">> \o resp.text]
    ELSE [Address |-> resp.SokakAdi, CityID |-> resp.CityId, DistrictID |-> district413,
          err |-> NoErr]

\* GetRecipientDetail taking a status of 400 or more for an error
GetRecipientDetailCheckStatus(resp) ==
    IF resp.kind = "transport"
    THEN [Address |-> <<>>, CityID |-> <<>>, DistrictID |-> <<>>,
          err |-> <<"musteri detay istegi basarisiz:">> \o resp.text]
    ELSE IF resp.kind = "read"
    THEN [Address |-> <<>>, CityID |-> <<>>, DistrictID |-> <<>>,
          err |-> <<"response okunamadi:">> \o resp.text]
    ELSE IF resp.status >= 400
    THEN [Address |-> <<>>, CityID |-> <<>>, DistrictID |-> <<>>,
          err |-> <<"musteri detay istegi basarisiz:">>]
    ELSE [Address |-> resp.SokakAdi, CityID |-> resp.CityId, DistrictID |-> <<>>,
          err |-> NoErr]

\* what GetRecipientDetail returns for the response to its GET
GetRecipientDetail(resp) ==
    IF resp.kind = "transport"
    THEN [Address |-> <<>>, CityID |-> <<>>, DistrictID |-> <<>>,
          err |-> <<"musteri detay istegi basarisiz:">> \o resp.text]
    ELSE IF resp.kind = "read"
    THEN [Address |-> <<>>, CityID |-> <<>>, DistrictID |-> <<>>,
          err |-> <<"response okunamadi:">> \o resp.text]
    ELSE [Address |-> resp.SokakAdi, CityID |-> resp.CityId, DistrictID |-> <<>>,
          err |-> NoErr]

\* a + b on fractions
FracAdd(a, b) == [num |-> a.num * b.den + b.num * a.den, den |-> a.den * b.den]

\* a > b on fractions with positive denominators
FracGreater(a, b) == a.num * b.den > b.num * a.den

Tenths(k) == [num |-> k, den |-> 10]

\* FallbackScore with the two weights exchanged
FallbackScoreSwapped(match, c) ==
    FracAdd(IF match.IdIl = parseIntOrZero(c.CityID) THEN Tenths(2) ELSE Tenths(0),
            IF match.IdIlce = parseIntOrZero(c.DistrictID) THEN Tenths(3) ELSE Tenths(0))

\* the score of a candidate whose detail could not be fetched
FallbackScore(match, c) ==
    FracAdd(IF match.IdIl = parseIntOrZero(c.CityID) THEN Tenths(3) ELSE Tenths(0),
            IF match.IdIlce = parseIntOrZero(c.DistrictID) THEN Tenths(2) ELSE Tenths(0))

\* the score of a candidate whose detail was fetched
DetailScore(detail, c) ==
    LET addressScore == calculateSimilarityScore(detail.Address, c.Address)
        half == [num |-> addressScore.num * 5, den |-> addressScore.den * 10]
    IN  FracAdd(FracAdd(half,
                        IF detail.CityID = c.CityID THEN Tenths(3) ELSE Tenths(0)),
                IF detail.DistrictID = c.DistrictID THEN Tenths(2) ELSE Tenths(0))

\* ScoreMatch taking the city from the listing row when the detail was fetched
ScoreMatchListingCity(match, detail, c) ==
    [recipient |-> match,
     score |-> IF detail.err # NoErr THEN FallbackScore(match, c)
               ELSE DetailScore([detail EXCEPT !.CityID = Itoa(match.IdIl)], c)]

\* the scoredMatch appended for one candidate
ScoreMatch(match, detail, c) ==
    [recipient |-> match,
     score |-> IF detail.err # NoErr THEN FallbackScore(match, c)
               ELSE DetailScore(detail, c)]

RECURSIVE BestFrom(_, _)
BestFrom(bestMatch, rest) ==
    IF rest = <<>> THEN bestMatch
    ELSE BestFrom(IF FracGreater(Head(rest).score, bestMatch.score)
                  THEN Head(rest) ELSE bestMatch, Tail(rest))

RECURSIVE BestFromLast(_, _)
BestFromLast(bestMatch, rest) ==
    IF rest = <<>> THEN bestMatch
    ELSE BestFromLast(IF FracGreater(bestMatch.score, Head(rest).score)
                      THEN bestMatch ELSE Head(rest), Tail(rest))

\* BestMatch replacing the best on an equal score too
BestMatchLastMax(scored) == BestFromLast(Head(scored), Tail(scored))

\* the scan for the highest score
BestMatch(scored) == BestFrom(Head(scored), Tail(scored))

(***************************************************************************)
(* The mutating calls and the token field they share                       *)
(***************************************************************************)

\* Login, CreateCustomer, CreateInvoice, CreateInvoiceRaw
Ops == {"Login", "CreateCustomer", "CreateInvoice", "CreateInvoiceRaw"}

\* the page whose form the call's updateToken fetches
TokenPath(op) == IF op = "Login" THEN "/account/login" ELSE "/Invoice/CreateQuick"

\* the endpoint the call posts its form to
PostPath(op) ==
    CASE op = "Login" -> "/Account/Login"
      [] op = "CreateCustomer" -> "/Recipient/Create"
      [] OTHER -> "/Invoice/Create"

\* the check a call makes before its token GET: CreateInvoiceRaw needs a
\* customer id
EarlyError(op, valid) ==
    IF op = "CreateInvoiceRaw" /\ ~valid THEN <<"musteri ID gerekli">> ELSE NoErr

\* the error a call returns when its updateToken failed
TokenError(op, err) ==
    IF op = "Login" THEN <<"token alinamadi:">> \o err
    ELSE <<"token guncellenemedi:">> \o err

\* the check a call makes between its token GET and its form: the validations
\* of CreateCustomer
LateError(op, valid) ==
    IF op = "CreateCustomer" /\ ~valid THEN <<"musteri adi zorunludur">> ELSE NoErr

\* the value of a read of Client.token that other goroutines may be writing at
\* the same time (racing: the values being written): the value in the field, a
\* value being written, or a mix of the two words of the string header
Torn == "torn"

ReadTokenAny(tok, racing) == Tokens \cup {tok}

ReadToken(tok, racing) ==
    {tok} \cup racing \cup (IF racing \ {tok} # {} THEN {Torn} ELSE {})

\* Login accepting every redirect status
LoginAnyRedirect(pageResp, postResp, tok) ==
    LET u == updateToken(pageResp, tok)
    IN  IF u.err # NoErr THEN TokenError("Login", u.err)
        ELSE IF postResp.kind = "transport"
        THEN <<"login istegi basarisiz:">> \o postResp.text
        ELSE IF postResp.status # 200 /\ ~(postResp.status \in 300..399)
        THEN <<"login basarisiz, status:">> \o Itoa(postResp.status)
             \o <<"body:">> \o postResp.body
        ELSE NoErr

\* the error Login returns, NoErr for success: pageResp answers its token GET,
\* postResp its POST
Login(pageResp, postResp, tok) ==
    LET u == updateToken(pageResp, tok)
    IN  IF u.err # NoErr THEN TokenError("Login", u.err)
        ELSE IF postResp.kind = "transport"
        THEN <<"login istegi basarisiz:">> \o postResp.text
        ELSE IF postResp.status # 302 /\ postResp.status # 200
        THEN <<"login basarisiz, status:">> \o Itoa(postResp.status)
             \o <<"body:">> \o postResp.body
        ELSE NoErr

(***************************************************************************)
(* The portal.  backend = "free": any answer the transport can deliver.    *)
(* backend = "store": a portal that stores each created customer, answers  *)
(* a create for a stored name with the duplicate error and lists and shows *)
(* what it stores.                                                         *)
(***************************************************************************)

VARIABLES
    backend,        \* "free" or "store"
    store,          \* the rows the storing portal holds
    token,          \* Client.token
    pc,             \* where the running call of CreateCustomerOrGetExisting is
    customer,       \* its argument
    createRes,      \* what its CreateCustomer call returned
    recipientList,  \* what its GetRecipientList call returned
    matches,        \* the rows matching by name
    scoredMatches,  \* the candidates scored so far
    details,        \* what GetRecipientDetail returned, candidate by candidate
    result,         \* what the call returned
    reqs,           \* the requests the call has issued, in order
    first,          \* the first of two successive calls, once the second runs
    fn,             \* the function under test that has been applied, or "none"
    createResp,     \* a response to the create POST, handed to ParseCreateResponse
    parsed,         \* what ParseCreateResponse returned for it
    simIn,          \* a pair of strings, handed to the similarity functions
    simOut,         \* calculateSimilarityScore of the pair, in both orders
    levOut,         \* levenshteinDistance of the pair, in both orders
    input,          \* the arguments of another function applied on its own
    output,         \* what that function returned
    threads,        \* the goroutines that use the Client
    th,             \* where each goroutine is in its mutating call
    wire            \* the requests of the running mutating calls, in order

\* the variables of CreateCustomerOrGetExisting and of the portal
resolver == <<backend, store, token, pc, customer, createRes, recipientList, matches,
              scoredMatches, details, result, reqs, first>>

\* the variables of the functions applied on their own
pure == <<fn, createResp, parsed, simIn, simOut, levOut, input, output>>

\* the variables of CreateCustomerOrGetExisting that are not the Client's
resolverLocals == <<backend, store, pc, customer, createRes, recipientList, matches,
                    scoredMatches, details, result, reqs, first>>

\* the variables of the mutating calls of one or two goroutines
session == <<threads, th, wire>>

\* what a call of CreateCustomerOrGetExisting leaves alone
elsewhere == <<pure, session>>

vars == <<backend, store, token, pc, customer, createRes, recipientList, matches,
          scoredMatches, details, result, reqs, first, fn, createResp, parsed,
          simIn, simOut, levOut, input, output, threads, th, wire>>

TransportFailures(kinds, texts) ==
    { [kind |-> k, text |-> <<"Get">> \o t, token |-> "", json |-> FALSE,
       error |-> Absent, ErrorMessage |-> Absent, IdAlici |-> Absent,
       Message |-> Absent, data |-> <<>>, SokakAdi |-> <<>>, CityId |-> <<>>]
      : k \in kinds, t \in texts }

\* a response that arrived, with the fields f of it set
Page(f) ==
    [kind |-> "page", text |-> <<>>, token |-> "", json |-> FALSE,
     error |-> Absent, ErrorMessage |-> Absent, IdAlici |-> Absent,
     Message |-> Absent, data |-> <<>>, SokakAdi |-> <<>>, CityId |-> <<>>] @@ f

Max(S) == CHOOSE x \in S : \A y \in S : y <= x

Min2(a, b) == IF a < b THEN a ELSE b

StoredNames(st) == { st[i].AliciAdi : i \in 1..Len(st) }

\* the row the storing portal keeps for a create form
NewRow(st, form) ==
    [IdAlici |-> Max({st[i].IdAlici : i \in 1..Len(st)} \cup {10}) + 1,
     AliciAdi |-> form.AliciAdi, IdIl |-> parseIntOrZero(form.IdIl),
     IdIlce |-> parseIntOrZero(form.IdIlce), SokakAdi |-> form.SokakAdi]

\* the storing portal after a create POST
StoreAfterCreate(st, form) ==
    IF form.AliciAdi \in StoredNames(st) THEN st ELSE Append(st, NewRow(st, form))

TokenResponses ==
    IF backend = "store"
    THEN { [token |-> t] @@ Page(<<>>) : t \in Tokens }
    ELSE TransportFailures({"transport", "read"}, EnvTexts)
         \cup { [token |-> t] @@ Page(<<>>) : t \in Tokens \cup {""} }

CreateResponses(form) ==
    IF backend = "store"
    THEN IF form.AliciAdi \in StoredNames(store)
         THEN { [json |-> TRUE, error |-> Str(DupText)] @@ Page(<<>>) }
         ELSE { [json |-> TRUE, IdAlici |-> Num(NewRow(store, form).IdAlici)]
                @@ Page(<<>>) }
    ELSE TransportFailures({"transport", "read"}, EnvTexts)
         \cup { [json |-> j, error |-> e, ErrorMessage |-> m, IdAlici |-> i,
                 Message |-> x] @@ Page(<<>>)
                : j \in BOOLEAN,
                  e \in {Absent, Str(<<>>), Str(DupText), Str(OtherText), Num(1)},
                  m \in {Absent, Str(DupText), Str(OtherText)},
                  i \in {Absent, Num(7), Str(<<"7">>)},
                  x \in {Absent, Str(DupText)} }

ListResponses(length) ==
    IF backend = "store"
    THEN { [json |-> TRUE, data |-> SubSeq(store, 1, Min2(Len(store), length))]
           @@ Page(<<>>) }
    ELSE TransportFailures({"transport", "read"}, EnvTexts)
         \cup { [json |-> FALSE] @@ Page(<<>>) }
         \cup { [json |-> TRUE, data |-> d] @@ Page(<<>>)
                : d \in { q \in SeqsUpTo(RowSet, MaxRows) : Injective(q) } }

DetailResponses(id) ==
    IF backend = "store"
    THEN IF \E i \in 1..Len(store) : store[i].IdAlici = id
         THEN LET row == store[CHOOSE i \in 1..Len(store) : store[i].IdAlici = id]
              IN  { [SokakAdi |-> row.SokakAdi, CityId |-> Itoa(row.IdIl)] @@ Page(<<>>) }
         ELSE { Page(<<>>) }
    ELSE TransportFailures({"transport"}, {OtherText})
         \cup { [SokakAdi |-> l.Address, CityId |-> l.CityID] @@ Page(<<>>)
                : l \in {loc1, loc3, [Address |-> addr2, CityID |-> <<>>]} }

(***************************************************************************)
(* CreateCustomerOrGetExisting, request by request                         *)
(***************************************************************************)

NoResult == [id |-> <<>>, err |-> NoErr]
NoCreate == [id |-> <<>>, kind |-> "none", err |-> NoErr]
NoList == [Data |-> <<>>, err |-> NoErr]
NoFirst == [customer |-> NoCustomer, result |-> NoResult, before |-> <<>>,
            after |-> <<>>, set |-> FALSE]

Fresh ==
    /\ createRes = NoCreate
    /\ recipientList = NoList
    /\ matches = <<>>
    /\ scoredMatches = <<>>
    /\ details = <<>>
    /\ result = NoResult
    /\ reqs = <<>>

\* no function is applied on its own
NoFunction ==
    /\ fn = "none"
    /\ createResp = <<>>
    /\ parsed = NoCreate
    /\ simIn = <<>>
    /\ simOut = <<>>
    /\ levOut = <<>>
    /\ input = <<>>
    /\ output = <<>>

\* no goroutine makes a mutating call
NoSession ==
    /\ threads = {}
    /\ th = <<>>
    /\ wire = <<>>

Init ==
    /\ backend = "free"
    /\ store = <<>>
    /\ token = ""
    /\ pc = "idle"
    /\ customer = NoCustomer
    /\ first = NoFirst
    /\ Fresh
    /\ NoFunction
    /\ NoSession

InitStore ==
    /\ backend = "store"
    /\ store \in { q \in SeqsUpTo(RowSet, MaxRows) : Injective(q) }
    /\ token = ""
    /\ pc = "idle"
    /\ customer = NoCustomer
    /\ first = NoFirst
    /\ Fresh
    /\ NoFunction
    /\ NoSession

\* a caller calls CreateCustomerOrGetExisting(c)
Call ==
    /\ pc = "idle"
    /\ \E c \in Customers : customer' = c
    /\ pc' = "token"
    /\ first' = [NoFirst EXCEPT !.before = store]
    /\ UNCHANGED <<backend, store, token, createRes, recipientList, matches,
                   scoredMatches, details, result, reqs>>
    /\ UNCHANGED elsewhere

\* AfterCreate entering the fallback only on a business error
AfterCreateBusinessOnly(res) ==
    IF res.err = NoErr THEN [pc |-> "done", result |-> [id |-> res.id, err |-> NoErr]]
    ELSE IF res.kind = "business" /\ IsDuplicate(res.err)
    THEN [pc |-> "list", result |-> NoResult]
    ELSE [pc |-> "done", result |-> [id |-> <<>>, err |-> res.err]]

\* what CreateCustomerOrGetExisting does with the return of CreateCustomer:
\* where it goes on and what it returns
AfterCreate(res) ==
    IF res.err = NoErr THEN [pc |-> "done", result |-> [id |-> res.id, err |-> NoErr]]
    ELSE IF IsDuplicate(res.err) THEN [pc |-> "list", result |-> NoResult]
    ELSE [pc |-> "done", result |-> [id |-> <<>>, err |-> res.err]]

\* CreateCustomer up to its POST: the token GET and the validations
RefreshAndValidate ==
    /\ pc = "token"
    /\ \E resp \in TokenResponses :
         LET t == updateToken(resp, token)
             res == BeforePost(t, customer)
         IN  /\ token' = t.token
             /\ reqs' = Append(reqs, Req("token", 0, NoForm))
             /\ IF res.err = NoErr
                THEN /\ pc' = "create"
                     /\ UNCHANGED <<createRes, result>>
                ELSE /\ createRes' = res
                     /\ pc' = AfterCreate(res).pc
                     /\ result' = AfterCreate(res).result
    /\ UNCHANGED <<backend, store, customer, recipientList, matches, scoredMatches,
                   details, first>>
    /\ UNCHANGED elsewhere

\* CreateCustomer from its POST on, and the test on what it returned
PostCreate ==
    /\ pc = "create"
    /\ LET form == CreateForm(customer, token)
       IN  /\ \E resp \in CreateResponses(form) :
                LET res == ParseCreateResponse(resp)
                IN  /\ createRes' = res
                    /\ pc' = AfterCreate(res).pc
                    /\ result' = AfterCreate(res).result
           /\ reqs' = Append(reqs, Req("create", 0, form))
           /\ store' = IF backend = "store" THEN StoreAfterCreate(store, form) ELSE store
    /\ UNCHANGED <<backend, token, customer, recipientList, matches, scoredMatches,
                   details, first>>
    /\ UNCHANGED elsewhere

\* AfterList ranking a single candidate too
AfterListAlwaysRank(list, c) ==
    LET m == MatchByName(list.Data, c)
    IN  IF list.err # NoErr
        THEN [pc |-> "done", matches |-> <<>>,
              result |-> [id |-> <<>>, err |-> <<"musteri listesi alinamadi:">> \o list.err]]
        ELSE IF Len(m) = 0
        THEN [pc |-> "done", matches |-> m,
              result |-> [id |-> <<>>,
                          err |-> <<"musteri zaten kayitli ancak listede bulunamadi:">>]]
        ELSE [pc |-> "detail", matches |-> m, result |-> NoResult]

\* AfterList returning the first candidate whenever there is one
AfterListFirstOfMany(list, c) ==
    LET m == MatchByName(list.Data, c)
    IN  IF list.err # NoErr
        THEN [pc |-> "done", matches |-> <<>>,
              result |-> [id |-> <<>>, err |-> <<"musteri listesi alinamadi:">> \o list.err]]
        ELSE IF Len(m) = 0
        THEN [pc |-> "done", matches |-> m,
              result |-> [id |-> <<>>,
                          err |-> <<"musteri zaten kayitli ancak listede bulunamadi:">>]]
        ELSE [pc |-> "done", matches |-> m,
              result |-> [id |-> Itoa(m[1].IdAlici), err |-> NoErr]]

\* AfterList taking a listing that failed for an empty listing
AfterListDropError(list, c) ==
    LET m == MatchByName(list.Data, c)
    IN  IF Len(m) = 0
        THEN [pc |-> "done", matches |-> m,
              result |-> [id |-> <<>>,
                          err |-> <<"musteri zaten kayitli ancak listede bulunamadi:">>]]
        ELSE IF Len(m) = 1
        THEN [pc |-> "done", matches |-> m,
              result |-> [id |-> Itoa(m[1].IdAlici), err |-> NoErr]]
        ELSE [pc |-> "detail", matches |-> m, result |-> NoResult]

\* what CreateCustomerOrGetExisting does with the listing
AfterList(list, c) ==
    LET m == MatchByName(list.Data, c)
    IN  IF list.err # NoErr
        THEN [pc |-> "done", matches |-> <<>>,
              result |-> [id |-> <<>>, err |-> <<"musteri listesi alinamadi:">> \o list.err]]
        ELSE IF Len(m) = 0
        THEN [pc |-> "done", matches |-> m,
              result |-> [id |-> <<>>,
                          err |-> <<"musteri zaten kayitli ancak listede bulunamadi:">>]]
        ELSE IF Len(m) = 1
        THEN [pc |-> "done", matches |-> m,
              result |-> [id |-> Itoa(m[1].IdAlici), err |-> NoErr]]
        ELSE [pc |-> "detail", matches |-> m, result |-> NoResult]

\* the fallback: GetRecipientList(500) and the match by name
PostList ==
    /\ pc = "list"
    /\ \E resp \in ListResponses(ListLimit) :
         LET list == GetRecipientList(resp)
         IN  /\ recipientList' = list
             /\ matches' = AfterList(list, customer).matches
             /\ pc' = AfterList(list, customer).pc
             /\ result' = AfterList(list, customer).result
    /\ reqs' = Append(reqs, Req("list", ListLimit, NoForm))
    /\ UNCHANGED <<backend, store, token, customer, createRes, scoredMatches, details,
                   first>>
    /\ UNCHANGED elsewhere

\* one round of the scoring loop: GetRecipientDetail of the next candidate and
\* its score; after the last candidate, the choice of the best
GetDetail ==
    /\ pc = "detail"
    /\ LET match == matches[Len(scoredMatches) + 1]
       IN  /\ \E resp \in DetailResponses(match.IdAlici) :
                LET detail == GetRecipientDetail(resp)
                    scored == Append(scoredMatches, ScoreMatch(match, detail, customer))
                IN  /\ details' = Append(details, detail)
                    /\ scoredMatches' = scored
                    /\ IF Len(scored) = Len(matches)
                       THEN /\ pc' = "done"
                            /\ result' = [id |-> Itoa(BestMatch(scored).recipient.IdAlici),
                                          err |-> NoErr]
                       ELSE /\ pc' = "detail"
                            /\ UNCHANGED result
           /\ reqs' = Append(reqs, Req("detail", match.IdAlici, NoForm))
    /\ UNCHANGED <<backend, store, token, customer, createRes, recipientList, matches,
                   first>>
    /\ UNCHANGED elsewhere

\* the call has returned; the client is ready for the next one
Return ==
    /\ pc = "done"
    /\ pc' = "idle"
    /\ customer' = NoCustomer
    /\ createRes' = NoCreate
    /\ recipientList' = NoList
    /\ matches' = <<>>
    /\ scoredMatches' = <<>>
    /\ details' = <<>>
    /\ result' = NoResult
    /\ reqs' = <<>>
    /\ UNCHANGED <<backend, store, token, first>>
    /\ UNCHANGED elsewhere

\* the caller calls again with the same customer
CallAgain ==
    /\ pc = "done"
    /\ ~first.set
    /\ first' = [customer |-> customer, result |-> result, before |-> first.before,
                 after |-> store, set |-> TRUE]
    /\ pc' = "token"
    /\ createRes' = NoCreate
    /\ recipientList' = NoList
    /\ matches' = <<>>
    /\ scoredMatches' = <<>>
    /\ details' = <<>>
    /\ result' = NoResult
    /\ reqs' = <<>>
    /\ UNCHANGED <<backend, store, token, customer>>
    /\ UNCHANGED elsewhere

Next == Call \/ RefreshAndValidate \/ PostCreate \/ PostList \/ GetDetail \/ Return

Spec == Init /\ [][Next]_vars

NextStore == Call \/ RefreshAndValidate \/ PostCreate \/ PostList \/ GetDetail \/ CallAgain

SpecStore == InitStore /\ [][NextStore]_vars

(***************************************************************************)
(* ParseCreateResponse applied on its own to any response of the create    *)
(* POST                                                                    *)
(***************************************************************************)

\* the client before any call
Quiet ==
    /\ backend = "free"
    /\ store = <<>>
    /\ token = ""
    /\ pc = "idle"
    /\ customer = NoCustomer
    /\ first = NoFirst
    /\ Fresh

InitParse ==
    /\ Quiet
    /\ fn = "none"
    /\ createResp \in CreateResponses(NoForm)
    /\ parsed = NoCreate
    /\ simIn = <<>>
    /\ simOut = <<>>
    /\ levOut = <<>>
    /\ input = <<>>
    /\ output = <<>>
    /\ NoSession

\* CreateCustomer from the response of its POST to its return
ApplyParse ==
    /\ fn = "none"
    /\ createResp # <<>>
    /\ fn' = "parse"
    /\ parsed' = ParseCreateResponse(createResp)
    /\ UNCHANGED <<createResp, simIn, simOut, levOut, input, output>>
    /\ UNCHANGED <<resolver, session>>

NextParse == ApplyParse

SpecParse == InitParse /\ [][NextParse]_vars

(***************************************************************************)
(* calculateSimilarityScore and levenshteinDistance applied on their own   *)
(* to any two strings                                                      *)
(***************************************************************************)

\* longest string handed to the similarity functions
MaxLen == 3

\* code points of the strings: a letter, its upper case, white space and a
\* letter of two bytes
Alphabet == {"a", "A", " ", "i-"}

Strings == SeqsUpTo(Alphabet, MaxLen)

InitSim ==
    /\ Quiet
    /\ fn = "none"
    /\ createResp = <<>>
    /\ parsed = NoCreate
    /\ simIn \in Strings \X Strings
    /\ simOut = <<>>
    /\ levOut = <<>>
    /\ input = <<>>
    /\ output = <<>>
    /\ NoSession

\* the address score of a candidate, for the pair in either order
Score ==
    /\ fn = "none"
    /\ simIn # <<>>
    /\ fn' = "score"
    /\ simOut' = [ab |-> calculateSimilarityScore(simIn[1], simIn[2]),
                  ba |-> calculateSimilarityScore(simIn[2], simIn[1])]
    /\ UNCHANGED <<createResp, parsed, simIn, levOut, input, output>>
    /\ UNCHANGED <<resolver, session>>

\* the edit distance, for the pair in either order
Distance ==
    /\ fn = "none"
    /\ simIn # <<>>
    /\ fn' = "distance"
    /\ levOut' = [ab |-> levenshteinDistance(simIn[1], simIn[2]),
                  ba |-> levenshteinDistance(simIn[2], simIn[1])]
    /\ UNCHANGED <<createResp, parsed, simIn, simOut, input, output>>
    /\ UNCHANGED <<resolver, session>>

NextSim == Score \/ Distance

SpecSim == InitSim /\ [][NextSim]_vars

(***************************************************************************)
(* Mutating calls on one Client, by one goroutine or by two                *)
(***************************************************************************)

NoThread == [pc |-> "idle", op |-> "", valid |-> TRUE, got |-> "", sent |-> "",
             err |-> NoErr]

\* what the portal may answer to a token GET
PageResponses ==
    TransportFailures({"transport"}, {OtherText})
    \cup { [token |-> t] @@ Page(<<>>) : t \in Tokens \cup {""} }

\* what the portal may answer to the POST of a mutating call: the error of the
\* call, NoErr when it accepts
PostResults(op) ==
    { NoErr,
      CASE op = "Login" -> <<"login basarisiz">>
        [] op = "CreateCustomer" -> <<"musteri olusturma hatasi:">> \o OtherText
        [] op = "CreateInvoice" -> <<"fatura olusturulamadi:">>
        [] OTHER -> <<"fatura olusturma istegi basarisiz:">> \o OtherText }

InitCalls ==
    /\ Quiet
    /\ NoFunction
    /\ th = [t \in threads |-> NoThread]
    /\ wire = <<>>

\* one goroutine uses the Client
InitSeq ==
    /\ threads = {1}
    /\ InitCalls

\* two goroutines use the same Client
InitConc ==
    /\ threads = {1, 2}
    /\ InitCalls

\* the tokens other goroutines are writing to Client.token
Racing(t) == { th[u].got : u \in { v \in threads \ {t} : th[v].pc = "store" } }

\* a goroutine calls a mutating operation
CallOp ==
    /\ \E t \in threads, op \in Ops, valid \in BOOLEAN :
           /\ th[t].pc = "idle"
           /\ th' = [th EXCEPT ![t] =
                         [NoThread EXCEPT !.op = op, !.valid = valid,
                                          !.err = EarlyError(op, valid),
                                          !.pc = IF EarlyError(op, valid) = NoErr
                                                 THEN "get" ELSE "done"]]
    /\ UNCHANGED <<threads, wire, token>>
    /\ UNCHANGED <<resolverLocals, pure>>

\* updateToken up to the match of the token in the page
GetToken ==
    /\ \E t \in threads, resp \in PageResponses :
           LET u == updateToken(resp, token)
           IN  /\ th[t].pc = "get"
               /\ wire' = Append(wire, [by |-> t, method |-> "GET",
                                        path |-> TokenPath(th[t].op),
                                        token |-> resp.token])
               /\ th' = [th EXCEPT ![t].got = IF u.err = NoErr THEN u.token ELSE "",
                                   ![t].err = IF u.err = NoErr THEN NoErr
                                              ELSE TokenError(th[t].op, u.err),
                                   ![t].pc = IF u.err = NoErr THEN "store" ELSE "done"]
               \* a refresh that fails returns with what it leaves in c.token;
               \* one that matched writes c.token in StoreToken
               /\ token' = IF u.err = NoErr THEN token ELSE u.token
    /\ UNCHANGED threads
    /\ UNCHANGED <<resolverLocals, pure>>

\* c.token = matches[1], and what the call does before it builds its form
StoreToken ==
    /\ \E t \in threads :
           /\ th[t].pc = "store"
           /\ token' = th[t].got
           /\ th' = [th EXCEPT ![t].err = LateError(th[t].op, th[t].valid),
                               ![t].pc = IF LateError(th[t].op, th[t].valid) = NoErr
                                         THEN "build" ELSE "done"]
    /\ UNCHANGED <<threads, wire>>
    /\ UNCHANGED <<resolverLocals, pure>>

\* the form is built: "__RequestVerificationToken": {c.token}
BuildForm ==
    /\ \E t \in threads :
           /\ th[t].pc = "build"
           /\ \E v \in ReadToken(token, Racing(t)) :
                  th' = [th EXCEPT ![t].sent = v, ![t].pc = "post"]
    /\ UNCHANGED <<threads, wire, token>>
    /\ UNCHANGED <<resolverLocals, pure>>

\* the POST and the return of the call
PostForm ==
    /\ \E t \in threads :
           /\ th[t].pc = "post"
           /\ wire' = Append(wire, [by |-> t, method |-> "POST",
                                    path |-> PostPath(th[t].op),
                                    token |-> th[t].sent])
           /\ \E e \in PostResults(th[t].op) :
                  th' = [th EXCEPT ![t].err = e, ![t].pc = "done"]
    /\ UNCHANGED <<threads, token>>
    /\ UNCHANGED <<resolverLocals, pure>>

\* every goroutine has returned; the next calls start
ReturnAll ==
    /\ \A t \in threads : th[t].pc = "done"
    /\ th' = [t \in threads |-> NoThread]
    /\ wire' = <<>>
    /\ UNCHANGED <<threads, token>>
    /\ UNCHANGED <<resolverLocals, pure>>

NextCalls == CallOp \/ GetToken \/ StoreToken \/ BuildForm \/ PostForm \/ ReturnAll

SpecSeq == InitSeq /\ [][NextCalls]_vars

SpecConc == InitConc /\ [][NextCalls]_vars

(***************************************************************************)
(* The locality lookups applied on their own to any dataset and any names  *)
(***************************************************************************)

\* longest list of provinces and longest list of districts of a dataset
MaxCities == 2
MaxDistricts == 3

Bolu == <<"B", "o", "l", "u">>
Izmir == <<"I.", "z", "m", "i", "r">>

\* provinces a dataset may list: two provinces, one of them under a second
\* spelling and under a second id
CitySet ==
    { [ID |-> "14", Name |-> Bolu],
      [ID |-> "35", Name |-> Izmir],
      [ID |-> "35", Name |-> <<"i", "z", "m", "i", "r">>],
      [ID |-> "14", Name |-> Izmir] }

CityLists == { q \in SeqsUpTo(CitySet, MaxCities) : Injective(q) }

\* the names a caller asks for
CityInputs ==
    { Izmir,
      <<"i", "z", "m", "i", "r">>,
      <<"I", "Z", "M", "I", "R">>,
      <<"I.", "Z", "M", "I.", "R">>,
      <<"i-", "z", "m", "i-", "r">>,
      <<" ", "i", "Z", "m", "I", "r">>,
      Bolu,
      <<"B", "O", "L", "U">>,
      <<"b", "o:", "l", "u">>,
      <<"v", "a", "n">>,
      <<>> }

\* districts a province may list
DistrictSet ==
    { [ID |-> 1, Name |-> Merkez],
      [ID |-> 2, Name |-> Bolu \o <<" ">> \o Merkez],
      [ID |-> 3, Name |-> Bolu],
      [ID |-> 4, Name |-> <<"M", "e", "n", "g", "e", "n">>] }

DistrictLists == { q \in SeqsUpTo(DistrictSet, MaxDistricts) : Injective(q) }

DistrictInputs ==
    { merkez,
      Merkez,
      <<"M", "E", "R", "K", "E", "Z">>,
      Bolu,
      <<"b", "o", "l", "u">>,
      <<"B", "O", "L", "U">>,
      <<"m", "e", "n", "g", "e", "n">>,
      <<"v", "a", "n">> }

\* the variables a lookup leaves alone
lookupFrame == <<fn, createResp, parsed, simIn, simOut, levOut, input, resolver, session>>

InitLookup ==
    /\ Quiet
    /\ NoSession
    /\ fn = "none"
    /\ createResp = <<>>
    /\ parsed = NoCreate
    /\ simIn = <<>>
    /\ simOut = <<>>
    /\ levOut = <<>>
    /\ output = <<>>

InitCity ==
    /\ InitLookup
    /\ input \in [cities : CityLists, n1 : CityInputs, n2 : CityInputs]

InitDistrict ==
    /\ InitLookup
    /\ input \in [cities : {<<>>, <<[ID |-> "14", Name |-> Bolu]>>},
                  districts : { [c \in {"14"} |-> q] : q \in DistrictLists },
                  cityID : {"14", "35"},
                  n1 : DistrictInputs, n2 : DistrictInputs]

\* GetCityID of two names, and GetCityName of the first id
LookupCity ==
    /\ output = <<>>
    /\ output' = [id1 |-> GetCityID(input.cities, input.n1),
                  id2 |-> GetCityID(input.cities, input.n2),
                  name1 |-> GetCityName(input.cities,
                                        GetCityID(input.cities, input.n1))]
    /\ UNCHANGED lookupFrame

\* GetDistrictID of two names in one province
LookupDistrict ==
    /\ output = <<>>
    /\ output' = [d1 |-> GetDistrictID(input, input.cityID, input.n1),
                  d2 |-> GetDistrictID(input, input.cityID, input.n2)]
    /\ UNCHANGED lookupFrame

NextCity == LookupCity

SpecCity == InitCity /\ [][NextCity]_vars

NextDistrict == LookupDistrict

SpecDistrict == InitDistrict /\ [][NextDistrict]_vars

(***************************************************************************)
(* Login applied on its own to any answer to its GET and to its POST       *)
(***************************************************************************)

\* the statuses the portal may answer the login POST with
Statuses == {200, 201, 301, 302, 303, 304, 307, 401, 500}

\* what may come back for the login POST
LoginResponses ==
    { [kind |-> "transport", text |-> OtherText, status |-> 0, body |-> <<>>] }
    \cup { [kind |-> "page", text |-> <<>>, status |-> s, body |-> b]
           : s \in Statuses, b \in {<<>>, OtherText, DupText} }

InitLogin ==
    /\ InitLookup
    /\ input \in [page : PageResponses, post : LoginResponses]

\* Login from its call to its return
ApplyLogin ==
    /\ output = <<>>
    /\ output' = [err |-> Login(input.page, input.post, token)]
    /\ UNCHANGED lookupFrame

NextLogin == ApplyLogin

SpecLogin == InitLogin /\ [][NextLogin]_vars

(***************************************************************************)
(* GetRecipientDetail and the score of one candidate, applied on their own *)
(* to any answer to the detail GET                                         *)
(***************************************************************************)

\* the statuses the portal may answer the detail GET with
DetailStatuses == {200, 404, 500}

\* what may come back for the detail GET: a failure of the transport or of the
\* read of the body, or a page of any status with or without the fields
DetailAnswers ==
    TransportFailures({"transport", "read"}, {OtherText})
    \cup { [status |-> s, SokakAdi |-> l.Address, CityId |-> l.CityID] @@ Page(<<>>)
           : s \in DetailStatuses,
             l \in {loc1, loc3, [Address |-> <<>>, CityID |-> <<>>]} }

InitDetail ==
    /\ InitLookup
    /\ input \in [resp : DetailAnswers, match : RowSet,
                  customer : { c \in Customers : Validate(c) = NoErr }]

\* one round of the scoring loop, for one candidate
ScoreCandidate ==
    /\ output = <<>>
    /\ output' = [detail |-> GetRecipientDetail(input.resp),
                  scored |-> ScoreMatch(input.match, GetRecipientDetail(input.resp),
                                        input.customer)]
    /\ UNCHANGED lookupFrame

NextDetail == ScoreCandidate

SpecDetail == InitDetail /\ [][NextDetail]_vars

(***************************************************************************)
(* CreateInvoiceWithCustomer: the customer is resolved by                  *)
(* CreateCustomerOrGetExisting, then CreateInvoice posts the invoice       *)
(***************************************************************************)

\* the customers a caller passes with an invoice: one that can be created, one
\* whose name is listed in another case, and one that fails the validations
WithCustomers ==
    { Cust(ali, "11111111111", "a@b", 1, loc1),
      Cust(AliUpper, "11111111111", "a@b", 1, loc2),
      Cust(<<>>, "11111111111", "a@b", 1, loc1) }

\* the call is not running
NoCall == <<>>

\* the state of a running call: where it is, the customerID it holds, and what
\* it returns
Running(at, id) == [pc |-> at, customerID |-> id, invoiceNo |-> <<>>, err |-> NoErr]

Returned(no, err) == [pc |-> "done", customerID |-> <<>>, invoiceNo |-> no, err |-> err]

\* the form of CreateInvoice, as far as the customer and the token go
InvoiceForm(id, tok) == [IdAlici |-> id, RequestVerificationToken |-> tok]

\* strings.Trim(s, `"`) on a body given as its words and quotes
TrimQuotes(s) ==
    LET keep == { i \in 1..Len(s) : s[i] # "\"" }
    IN  IF keep = {} THEN <<>>
        ELSE SubSeq(s, CHOOSE i \in keep : \A j \in keep : i <= j, Max(keep))

\* what the portal may answer to the POST of the invoice
InvoiceResponses ==
    TransportFailures({"transport", "read"}, {OtherText})
    \cup { [text |-> b] @@ Page(<<>>)
           : b \in { <<"\"", "F1", "\"">>, <<"\"", "\"">>, <<"error">> } }

\* CreateInvoice going on to its POST whatever CreateCustomerOrGetExisting
\* returned
AfterResolveIgnoreError(res) == Running("invoice", res.id)

\* what CreateInvoiceWithCustomer does with the return of
\* CreateCustomerOrGetExisting
AfterResolve(res) ==
    IF res.err # NoErr
    THEN Returned(<<>>, <<"musteri islemi basarisiz:">> \o res.err)
    ELSE Running("invoice", res.id)

\* what CreateInvoice returns for the answer to its POST
CreateInvoiceReturn(resp) ==
    IF resp.kind = "transport"
    THEN Returned(<<>>, <<"fatura olusturma istegi basarisiz:">> \o resp.text)
    ELSE IF resp.kind = "read"
    THEN Returned(<<>>, <<"response okunamadi:">> \o resp.text)
    ELSE IF TrimQuotes(resp.text) = <<>> \/ Contains(TrimQuotes(resp.text), <<"error">>)
    THEN Returned(<<>>, <<"fatura olusturulamadi:">> \o resp.text)
    ELSE Returned(TrimQuotes(resp.text), NoErr)

\* the wrapping of an error of CreateInvoice by CreateInvoiceWithCustomer
WrapInvoice(r) ==
    IF r.err = NoErr THEN r
    ELSE Returned(<<>>, <<"fatura olusturulamadi:">> \o r.err)

withFrame == <<fn, createResp, parsed, simIn, simOut, levOut, session>>

InitWith == Init

\* CreateInvoiceWithCustomer(nil, products)
CallWithNil ==
    /\ pc = "idle"
    /\ output = NoCall
    /\ input' = [nil |-> TRUE, customer |-> NoCustomer]
    /\ output' = Returned(<<>>, <<"musteri bilgisi gerekli">>)
    /\ UNCHANGED resolver
    /\ UNCHANGED withFrame

\* CreateInvoiceWithCustomer(&c, products) up to its call of
\* CreateCustomerOrGetExisting(c)
CallWithCustomer ==
    /\ pc = "idle"
    /\ output = NoCall
    /\ \E c \in WithCustomers :
           /\ customer' = c
           /\ input' = [nil |-> FALSE, customer |-> c]
    /\ output' = Running("resolve", <<>>)
    /\ pc' = "token"
    /\ first' = [NoFirst EXCEPT !.before = store]
    /\ UNCHANGED <<backend, store, token, createRes, recipientList, matches,
                   scoredMatches, details, result, reqs>>
    /\ UNCHANGED withFrame

\* CreateCustomerOrGetExisting has returned
Resolved ==
    /\ pc = "done"
    /\ output # NoCall
    /\ output.pc = "resolve"
    /\ output' = AfterResolve(result)
    /\ UNCHANGED <<input, resolver>>
    /\ UNCHANGED withFrame

\* CreateInvoice up to its POST: the token GET
InvoiceToken ==
    /\ output # NoCall
    /\ output.pc = "invoice"
    /\ \E resp \in TokenResponses :
         LET u == updateToken(resp, token)
         IN  /\ token' = u.token
             /\ reqs' = Append(reqs, Req("token", 0, NoForm))
             /\ output' = IF u.err = NoErr
                          THEN Running("post", output.customerID)
                          ELSE WrapInvoice(Returned(<<>>, <<"token guncellenemedi:">>
                                                          \o u.err))
    /\ UNCHANGED <<backend, store, pc, customer, createRes, recipientList, matches,
                   scoredMatches, details, result, first, input>>
    /\ UNCHANGED withFrame

\* CreateInvoice from its POST on
InvoicePost ==
    /\ output # NoCall
    /\ output.pc = "post"
    /\ reqs' = Append(reqs, Req("invoice", 0, InvoiceForm(output.customerID, token)))
    /\ \E resp \in InvoiceResponses :
           output' = WrapInvoice(CreateInvoiceReturn(resp))
    /\ UNCHANGED <<backend, store, token, pc, customer, createRes, recipientList,
                   matches, scoredMatches, details, result, first, input>>
    /\ UNCHANGED withFrame

\* the call has returned; the client is ready for the next one
ReturnWith ==
    /\ output # NoCall
    /\ output.pc = "done"
    /\ output' = NoCall
    /\ input' = <<>>
    /\ pc' = "idle"
    /\ customer' = NoCustomer
    /\ createRes' = NoCreate
    /\ recipientList' = NoList
    /\ matches' = <<>>
    /\ scoredMatches' = <<>>
    /\ details' = <<>>
    /\ result' = NoResult
    /\ reqs' = <<>>
    /\ UNCHANGED <<backend, store, token, first>>
    /\ UNCHANGED withFrame

NextWith ==
    \/ CallWithNil \/ CallWithCustomer
    \/ RefreshAndValidate \/ PostCreate \/ PostList \/ GetDetail
    \/ Resolved \/ InvoiceToken \/ InvoicePost \/ ReturnWith

SpecWith == InitWith /\ [][NextWith]_vars

(***************************************************************************)
(* Properties                                                              *)
(***************************************************************************)

\* the requests of kind op the running call has issued, in order
Issued(op) == SelectSeq(reqs, LAMBDA r : r.op = op)

\* the rows of a listing whose case-folded, trimmed name is the customer's
SameName(data, c) ==
    SelectSeq(data, LAMBDA r : ToLower(TrimSpace(r.AliciAdi)) = ToLower(TrimSpace(c.Name)))

\* a = b on fractions
FracEq(a, b) == a.num * b.den = b.num * a.den

\* the call returned after a listing that arrived and decoded
ListedAndDone == pc = "done" /\ Len(Issued("list")) = 1 /\ recipientList.err = NoErr

\* C1: against the storing portal, two successive calls with the same customer
\* return the same result and the second stores nothing; a customer that passes
\* the validations gets the same non-empty id from both, and exactly one stored
\* row then has its case-folded, trimmed name, provided that before the calls no
\* row with a different name had that case-folded, trimmed name and at most one
\* row had the customer's name.
C1_Idempotent ==
    (/\ pc = "done"
     /\ first.set
     /\ \A i \in 1..Len(SameName(first.before, customer)) :
            SameName(first.before, customer)[i].AliciAdi = customer.Name
     /\ Len(SameName(first.before, customer)) <= 1)
    => /\ result = first.result
       /\ store = first.after
       /\ (/\ customer.Name # <<>>
           /\ customer.TaxNumber # ""
           /\ ~(customer.SendingType = 1 /\ customer.Email = ""))
          => /\ result.err = NoErr
             /\ result.id # <<>>
             /\ Len(SameName(store, customer)) = 1
             /\ result.id = Itoa(SameName(store, customer)[1].IdAlici)

\* C1 witness: the first call created the customer, the second found it by listing
C1_Witness ==
    /\ pc = "done"
    /\ first.set
    /\ SameName(first.before, customer) = <<>>
    /\ Len(first.before) >= 2
    /\ Len(store) = Len(first.before) + 1
    /\ createRes.kind = "business"
    /\ Len(Issued("list")) = 1
    /\ result.id # <<>>
    /\ result = first.result

\* C2: a call that has returned has returned either a non-empty id and no error
\* or an empty id and an error.
C2_IdXorError ==
    pc = "done" =>
        \/ (result.id # <<>> /\ result.err = NoErr)
        \/ (result.id = <<>> /\ result.err # NoErr)

\* C2 witness: a call that returned an id after ranking several candidates
C2_Witness ==
    /\ pc = "done"
    /\ Len(matches) >= 2
    /\ Len(Issued("detail")) = Len(matches)
    /\ result.id # <<>>
    /\ result.err = NoErr

\* C3: when CreateCustomer failed with an error whose text does not contain the
\* duplicate substring, the call returns that error unchanged with an empty id and
\* has issued no list and no detail request.
C3_OtherErrorVerbatim ==
    (pc = "done" /\ createRes.err # NoErr /\ ~Contains(createRes.err, DupSignal))
    => /\ result.err = createRes.err
       /\ result.id = <<>>
       /\ Issued("list") = <<>>
       /\ Issued("detail") = <<>>

\* C3 witness: a business error whose text holds both words of the substring, apart
C3_Witness ==
    /\ pc = "done"
    /\ createRes.kind = "business"
    /\ createRes.err = <<"musteri olusturma hatasi:">> \o OtherText
    /\ result.err = createRes.err

\* C4 as claimed: the listing fallback is entered only after the business error of
\* CreateCustomer.
C4_OnlyBusinessError ==
    Issued("list") # <<>> => createRes.kind = "business"

\* C4 amended: the listing fallback is entered exactly when the error text of
\* CreateCustomer contains the duplicate substring; the validation errors, the
\* token-not-found error and the JSON decode error never trigger it.
C4_ExactlyBySubstring ==
    /\ pc \in {"list", "detail", "done"} =>
           (Issued("list") # <<>> \/ pc = "list")
           <=> (createRes.err # NoErr /\ Contains(createRes.err, DupSignal))
    /\ (Issued("list") # <<>> \/ pc = "list") =>
           /\ createRes.kind \in {"business", "noid", "transport", "read", "token"}
           /\ createRes.err # <<"token guncellenemedi:", "token bulunamadi">>

\* C4 witness: the fallback entered after a missing-id error whose body holds the
\* substring
C4_Witness ==
    /\ Issued("list") # <<>>
    /\ createRes.kind = "noid"
    /\ Contains(createRes.err, DupSignal)

\* C5: after a listing in which no row has the customer's case-folded, trimmed
\* name, the call returns the not-found error and no id, and has issued no detail
\* request.
C5_NoCandidate ==
    (ListedAndDone /\ SameName(recipientList.Data, customer) = <<>>)
    => /\ result.id = <<>>
       /\ result.err = <<"musteri zaten kayitli ancak listede bulunamadi:">>
       /\ Issued("detail") = <<>>

\* C5 witness: a listing with rows, none of them with the customer's name
C5_Witness ==
    /\ ListedAndDone
    /\ Len(recipientList.Data) >= 2
    /\ SameName(recipientList.Data, customer) = <<>>
    /\ result.id = <<>>

\* C6: after a listing in which exactly one row has the customer's name, the call
\* returns that row's id and has issued no detail request.
C6_OneCandidate ==
    (ListedAndDone /\ Len(SameName(recipientList.Data, customer)) = 1)
    => /\ result.id = Itoa(SameName(recipientList.Data, customer)[1].IdAlici)
       /\ result.err = NoErr
       /\ Issued("detail") = <<>>

\* C6 witness: the one candidate is not the first row of the listing
C6_Witness ==
    /\ ListedAndDone
    /\ Len(recipientList.Data) >= 2
    /\ Len(SameName(recipientList.Data, customer)) = 1
    /\ recipientList.Data[1].AliciAdi = veli
    /\ result.id = Itoa(SameName(recipientList.Data, customer)[1].IdAlici)

\* the candidate at place w of the scored candidates is the one returned: no
\* candidate scores higher, and every candidate before it scores lower
Winner(w) ==
    /\ result.id = Itoa(scoredMatches[w].recipient.IdAlici)
    /\ \A j \in 1..Len(scoredMatches) :
           scoredMatches[j].score.num * scoredMatches[w].score.den
               <= scoredMatches[w].score.num * scoredMatches[j].score.den
    /\ \A j \in 1..(w - 1) :
           scoredMatches[j].score.num * scoredMatches[w].score.den
               < scoredMatches[w].score.num * scoredMatches[j].score.den

\* C7: with two or more candidates the id returned is that of a candidate of
\* maximal score, the first such in listing order.
C7_FirstMaximal ==
    (ListedAndDone /\ Len(SameName(recipientList.Data, customer)) >= 2)
    => /\ Len(scoredMatches) = Len(SameName(recipientList.Data, customer))
       /\ \A k \in 1..Len(scoredMatches) :
              scoredMatches[k].recipient = SameName(recipientList.Data, customer)[k]
       /\ \E w \in 1..Len(scoredMatches) : Winner(w)

\* C7 witness: the last two of three candidates tie above the first, and the
\* second is returned
C7_Witness ==
    /\ ListedAndDone
    /\ Len(scoredMatches) = 3
    /\ FracEq(scoredMatches[2].score, scoredMatches[3].score)
    /\ scoredMatches[1].score.num * scoredMatches[2].score.den
           < scoredMatches[2].score.num * scoredMatches[1].score.den
    /\ result.id = Itoa(scoredMatches[2].recipient.IdAlici)
    /\ result.id # Itoa(scoredMatches[3].recipient.IdAlici)

\* s is a non-empty string of decimal digits
IsNumeric(s) == s # <<>> /\ \A i \in 1..Len(s) : s[i] \in {Digits[d] : d \in 1..10}

RECURSIVE NumVal(_)
\* the number a string of decimal digits denotes
NumVal(s) ==
    IF s = <<>> THEN 0
    ELSE 10 * NumVal(SubSeq(s, 1, Len(s) - 1))
         + (CHOOSE v \in 0..9 : Digits[v + 1] = s[Len(s)])

\* the tenths a candidate gets from its listing row
ListingTenths(r, c) ==
    (IF r.IdIl = NumVal(c.CityID) THEN 3 ELSE 0)
    + (IF r.IdIlce = NumVal(c.DistrictID) THEN 2 ELSE 0)

AllDetailsFailed ==
    /\ Len(details) >= 2
    /\ \A k \in 1..Len(details) : details[k].err # NoErr

\* C8: for a customer with numeric city and district ids, a candidate whose
\* detail fetch failed scores 0.3 for an equal listed city plus 0.2 for an equal
\* listed district and nothing else; when all detail fetches failed and some
\* candidate matches both, the candidate returned matches both.
C8_FallbackScore ==
    (IsNumeric(customer.CityID) /\ IsNumeric(customer.DistrictID))
    => /\ \A k \in 1..Len(scoredMatches) :
              details[k].err # NoErr =>
                  /\ scoredMatches[k].score.num * 10
                         = ListingTenths(SameName(recipientList.Data, customer)[k], customer)
                           * scoredMatches[k].score.den
                  /\ \E t \in {0, 2, 3, 5} :
                         scoredMatches[k].score.num * 10 = t * scoredMatches[k].score.den
       /\ (/\ pc = "done"
           /\ AllDetailsFailed
           /\ \E k \in 1..Len(matches) : ListingTenths(matches[k], customer) = 5)
          => \E k \in 1..Len(matches) :
                 /\ ListingTenths(matches[k], customer) = 5
                 /\ result.id = Itoa(matches[k].IdAlici)

\* C8 witness: all fetches failed, the first candidate matches neither city nor
\* district, a later one matches both and is returned
C8_Witness ==
    /\ pc = "done"
    /\ AllDetailsFailed
    /\ IsNumeric(customer.CityID)
    /\ IsNumeric(customer.DistrictID)
    /\ ListingTenths(matches[1], customer) = 0
    /\ ListingTenths(matches[2], customer) = 5
    /\ FracEq(scoredMatches[1].score, Tenths(0))
    /\ FracEq(scoredMatches[2].score, Tenths(5))
    /\ result.id = Itoa(matches[2].IdAlici)

\* the score the detail of candidate k and the customer give, times 10 * den of
\* the address similarity
DetailTenths(k) ==
    LET sim == calculateSimilarityScore(details[k].Address, customer.Address)
    IN  [num |-> 5 * sim.num
                 + (IF details[k].CityID = customer.CityID THEN 3 * sim.den ELSE 0)
                 + (IF details[k].DistrictID = customer.DistrictID THEN 2 * sim.den ELSE 0),
         den |-> 10 * sim.den]

\* C9: a candidate whose detail was fetched scores 0.5 times the similarity of
\* the detail's and the customer's address, plus 0.3 for an equal detail city id,
\* plus 0.2 for an equal detail district id: a function of the detail and the
\* customer alone.
C9_DetailScore ==
    \A k \in 1..Len(scoredMatches) :
        details[k].err = NoErr =>
            scoredMatches[k].score.num * DetailTenths(k).den
                = DetailTenths(k).num * scoredMatches[k].score.den

\* C9 witness: a fetched detail whose address is similar but not equal, for a
\* candidate whose listed city is the customer's while its detail city is not
C9_Witness ==
    \E k \in 1..Len(scoredMatches) :
        LET sim == calculateSimilarityScore(details[k].Address, customer.Address)
        IN  /\ details[k].err = NoErr
            /\ 0 < sim.num
            /\ sim.num < sim.den
            /\ IsNumeric(customer.CityID)
            /\ scoredMatches[k].recipient.IdIl = NumVal(customer.CityID)
            /\ details[k].CityID # customer.CityID
            /\ scoredMatches[k].score.num * 10 * sim.den
                   = (5 * sim.num + 2 * sim.den) * scoredMatches[k].score.den

\* C10: a call issues at most one token GET, one create POST and one list POST, in
\* this order and before any detail GET; with two or more candidates it returns
\* only after one detail GET per candidate, in listing order, and after scoring
\* every candidate.
C10_NoRepeatedRequest ==
    /\ Len(Issued("token")) <= 1
    /\ Len(Issued("create")) <= 1
    /\ Len(Issued("list")) <= 1
    /\ reqs = Issued("token") \o Issued("create") \o Issued("list") \o Issued("detail")
    /\ pc = "detail" => result.id = <<>>
    /\ (ListedAndDone /\ Len(SameName(recipientList.Data, customer)) >= 2)
       => /\ Len(scoredMatches) = Len(SameName(recipientList.Data, customer))
          /\ Len(Issued("detail")) = Len(SameName(recipientList.Data, customer))
          /\ \A k \in 1..Len(Issued("detail")) :
                 Issued("detail")[k].id = SameName(recipientList.Data, customer)[k].IdAlici

\* C10 witness: three candidates, three detail GETs, after a token GET, a create
\* POST and a list POST
C10_Witness ==
    /\ ListedAndDone
    /\ Len(SameName(recipientList.Data, customer)) = 3
    /\ Len(Issued("detail")) = 3
    /\ Len(reqs) = 6
    /\ result.id # <<>>

\* an error of a remote operation that is not the duplicate conflict
RemoteCreateError ==
    /\ createRes.err # NoErr
    /\ createRes.kind # "validation"
    /\ ~IsDuplicate(createRes.err)

\* C11 as claimed: every error of a remote operation other than the duplicate
\* conflict, the error of a candidate's detail fetch included, ends the call and
\* is returned as the call's error.
C11_NoErrorSuppressed ==
    /\ RemoteCreateError => (pc = "done" /\ result.err = createRes.err)
    /\ recipientList.err # NoErr
       => (pc = "done" /\ Contains(result.err, recipientList.err))
    /\ \A k \in 1..Len(details) :
           details[k].err # NoErr
           => (pc = "done" /\ Contains(result.err, details[k].err))

\* C11 amended: an error of the token refresh or of the create request whose text
\* does not contain the duplicate substring ends the call and is returned
\* unchanged; an error of the list request ends the call and is returned behind
\* the prefix naming the listing; an error of a candidate's detail fetch does not
\* end the call and is not returned: the candidate is scored from its listing row,
\* the remaining candidates are fetched, and the call returns an id.
C11_ErrorsPropagate ==
    /\ RemoteCreateError
       => /\ pc = "done"
          /\ result = [id |-> <<>>, err |-> createRes.err]
          /\ Issued("list") = <<>>
    /\ recipientList.err # NoErr
       => /\ pc = "done"
          /\ result = [id |-> <<>>,
                       err |-> <<"musteri listesi alinamadi:">> \o recipientList.err]
          /\ Issued("detail") = <<>>
    /\ \A k \in 1..Len(details) :
           details[k].err # NoErr
           => /\ scoredMatches[k].score = FallbackScore(matches[k], customer)
              /\ pc \in {"detail", "done"}
              /\ pc = "detail" <=> Len(details) < Len(matches)
              /\ pc = "done" => (result.err = NoErr /\ result.id # <<>>)

\* C11 witness: the first detail fetch failed, the second was still issued, and
\* the call returned an id and no error
C11_Witness ==
    /\ pc = "done"
    /\ Len(details) >= 2
    /\ details[1].err # NoErr
    /\ Len(Issued("detail")) = Len(details)
    /\ result.err = NoErr
    /\ result.id # <<>>

\* CreateCustomer has returned
CreateCustomerReturned == createRes # NoCreate

\* C12 as claimed: CreateCustomer called with an empty name, an empty tax number
\* or electronic sending and an empty email returns the validation error and has
\* issued no request, the token GET included.
C12_ValidationBeforeNetwork ==
    (CreateCustomerReturned /\ Validate(customer) # NoErr)
    => /\ createRes.err = Validate(customer)
       /\ reqs = <<>>

\* C12 failing run: the validation error is returned after the token GET
C12_Witness ==
    /\ CreateCustomerReturned
    /\ createRes.kind = "validation"
    /\ createRes.err = Validate(customer)
    /\ reqs = <<Req("token", 0, NoForm)>>

\* C13 as claimed: a create POST carries FaturaGonderimSekli = 1 only with a
\* non-empty Email, also for a customer whose SendingType was left 0; a customer
\* with SendingType 2 and an empty Email is not rejected by the validations.
C13_EmailIffElectronic ==
    /\ \A k \in 1..Len(reqs) :
           (reqs[k].op = "create" /\ reqs[k].form.FaturaGonderimSekli = 1)
           => reqs[k].form.Email # ""
    /\ (CreateCustomerReturned /\ customer.SendingType = 2 /\ customer.Email = ""
        /\ customer.Name # <<>> /\ customer.TaxNumber # "")
       => createRes.kind # "validation"

\* C13 failing run: a customer with SendingType 0 and no Email is posted as an
\* electronic customer
C13_Witness ==
    /\ customer.SendingType = 0
    /\ customer.Email = ""
    /\ Issued("create") # <<>>
    /\ Issued("create")[1].form.FaturaGonderimSekli = 1
    /\ Issued("create")[1].form.Email = ""

\* v is a non-empty JSON string
NonEmptyString(v) == v.t = "str" /\ v.s # <<>>

\* the create response is a JSON object and ParseCreateResponse has returned
ParsedObject == fn = "parse" /\ createResp.kind = "page" /\ createResp.json

\* C14: for a create response that is a JSON object, an id is returned exactly
\* when neither error nor ErrorMessage is a non-empty string and IdAlici is a
\* number; a non-empty error field gives the create-failed error whatever IdAlici
\* is, and with no error field an absent or non-numeric IdAlici gives the
\* id-missing error.
C14_IdIffNoErrorAndNumericId ==
    ParsedObject =>
        LET failed == NonEmptyString(createResp.error)
                      \/ NonEmptyString(createResp.ErrorMessage)
            numeric == createResp.IdAlici.t = "num"
        IN  /\ (parsed.id # <<>> /\ parsed.err = NoErr) <=> (~failed /\ numeric)
            /\ parsed.id # <<>> => parsed.id = Itoa(createResp.IdAlici.n)
            /\ failed
               => /\ parsed.id = <<>>
                  /\ parsed.err \in
                         { <<"musteri olusturma hatasi:">> \o createResp.error.s,
                           <<"musteri olusturma hatasi:">> \o createResp.ErrorMessage.s }
            /\ (~failed /\ ~numeric)
               => /\ parsed.id = <<>>
                  /\ parsed.err = <<"musteri ID bulunamadi:">> \o BodyText(createResp)

\* C14 witness: a JSON object with a non-empty ErrorMessage and a numeric IdAlici
\* gives the create-failed error and no id
C14_Witness ==
    /\ ParsedObject
    /\ ~NonEmptyString(createResp.error)
    /\ createResp.ErrorMessage = Str(OtherText)
    /\ createResp.IdAlici = Num(7)
    /\ parsed.id = <<>>
    /\ parsed.err = <<"musteri olusturma hatasi:">> \o OtherText

\* the score is 0.0
IsZero(f) == f.num = 0

\* the score is 1.0
IsOne(f) == f.num = f.den

\* C17 as claimed: for every non-empty string a, white space included, the
\* similarity of a and the empty string is 0.0 in both orders.
C17_EmptyGivesZero ==
    (fn = "score" /\ simIn[1] # <<>> /\ simIn[2] = <<>>)
    => (IsZero(simOut.ab) /\ IsZero(simOut.ba))

\* C17 amended: for every string a that is not empty after trimming white space,
\* the similarity of a and the empty string is 0.0 in both orders; for a string
\* of white space only it is 1.0 in both orders.
C17_EmptyAfterTrimGivesZero ==
    (fn = "score" /\ simIn[2] = <<>>)
    => IF TrimSpace(simIn[1]) # <<>>
       THEN IsZero(simOut.ab) /\ IsZero(simOut.ba)
       ELSE IsOne(simOut.ab) /\ IsOne(simOut.ba)

\* C17 witness: a string with white space around a letter, against the empty
\* string, scores 0.0 in both orders
C17_Witness ==
    /\ fn = "score"
    /\ simIn = << <<" ", "a", " ">>, <<>> >>
    /\ IsZero(simOut.ab)
    /\ IsZero(simOut.ba)

\* the larger of two integers
Larger(m, n) == IF m < n THEN n ELSE m

\* C18: the similarity of any two strings is at least 0.0 and at most 1.0, and the
\* edit distance of any two strings is at most the byte length of the longer one.
C18_ScoreInUnitInterval ==
    /\ fn = "score"
       => /\ simOut.ab.den > 0
          /\ 0 <= simOut.ab.num
          /\ simOut.ab.num <= simOut.ab.den
          /\ simOut.ba.den > 0
          /\ 0 <= simOut.ba.num
          /\ simOut.ba.num <= simOut.ba.den
    /\ fn = "distance"
       => /\ 0 <= levOut.ab
          /\ levOut.ab <= Larger(Len(Bytes(simIn[1])), Len(Bytes(simIn[2])))

\* C18 witness: a letter of one byte against a letter of two bytes: the distance
\* is the length of the longer string, the score 0.0
C18_Witness ==
    /\ fn = "score"
    /\ simIn = << <<"a">>, <<"i-">> >>
    /\ levenshteinDistance(simIn[2], simIn[1]) = 2
    /\ simOut.ab = [num |-> 0, den |-> 2]

\* C19: the edit distance of any two strings is the same in both orders, and so
\* is their similarity.
C19_Symmetric ==
    /\ fn = "distance" => levOut.ab = levOut.ba
    /\ fn = "score" => simOut.ab = simOut.ba

\* C19 witness: two strings of different lengths at distance 2 in both orders
C19_Witness ==
    /\ fn = "distance"
    /\ Len(simIn[1]) < Len(simIn[2])
    /\ levOut.ab = 2
    /\ levOut.ba = 2

\* the edit distance over code points: insertions, deletions and substitutions of
\* one code point, each of cost 1
RuneDistance(r1, r2) ==
    IF Len(r1) = 0 THEN Len(r2)
    ELSE IF Len(r2) = 0 THEN Len(r1)
    ELSE FillMatrix([j \in 1..(Len(r2) + 1) |-> j - 1], r1, r2, 1)[Len(r2) + 1]

\* r1 and r2 differ by one substituted code point
OneSubstitution(r1, r2) ==
    /\ Len(r1) = Len(r2)
    /\ Cardinality({i \in 1..Len(r1) : r1[i] # r2[i]}) = 1

\* C20 as claimed: for two strings that are different and non-empty after case
\* folding and trimming, the similarity is (maxLen - d) / maxLen with d the edit
\* distance over code points and maxLen the number of code points of the longer
\* string; two strings that differ by one substituted code point are at
\* distance 1.
C20_CodePointDistance ==
    /\ fn = "score"
       => LET r1 == ToLower(TrimSpace(simIn[1]))
              r2 == ToLower(TrimSpace(simIn[2]))
              maxLen == Larger(Len(r1), Len(r2))
          IN  (r1 # r2 /\ r1 # <<>> /\ r2 # <<>>)
              => FracEq(simOut.ab,
                        [num |-> maxLen - RuneDistance(r1, r2), den |-> maxLen])
    /\ (fn = "distance" /\ OneSubstitution(simIn[1], simIn[2])) => levOut.ab = 1

\* C20 failing run: "a" + dotless i against "aa", one substituted code point:
\* distance 2 of 3 bytes, score 1/3 where the code points give 1/2
C20_Witness ==
    /\ fn = "score"
    /\ simIn = << <<"a", "i-">>, <<"a", "a">> >>
    /\ simOut.ab = [num |-> 1, den |-> 3]
    /\ RuneDistance(simIn[1], simIn[2]) = 1

\* the POSTs among the requests of the running calls
Posts == { k \in 1..Len(wire) : wire[k].method = "POST" }

\* C15: with one goroutine, the POST of every mutating call directly follows the
\* token GET of the same call, a GET of the page of that call's form, and carries
\* the token that GET extracted; a call issues at most these two requests.
C15_PostCarriesOwnToken ==
    /\ Len(wire) <= 2
    /\ \A k \in Posts :
           /\ k > 1
           /\ wire[k - 1].method = "GET"
           /\ wire[k - 1].by = wire[k].by
           /\ wire[k - 1].path = TokenPath(th[wire[k].by].op)
           /\ wire[k].path = PostPath(th[wire[k].by].op)
           /\ wire[k - 1].token # ""
           /\ wire[k].token = wire[k - 1].token
           /\ wire[k].token = token

\* C15 witness: CreateInvoiceRaw has fetched /Invoice/CreateQuick, extracted t2
\* and posted t2 to /Invoice/Create
C15_Witness ==
    /\ threads = {1}
    /\ th[1].op = "CreateInvoiceRaw"
    /\ th[1].pc = "done"
    /\ Len(wire) = 2
    /\ wire[1] = [by |-> 1, method |-> "GET", path |-> "/Invoice/CreateQuick",
                  token |-> "t2"]
    /\ wire[2] = [by |-> 1, method |-> "POST", path |-> "/Invoice/Create",
                  token |-> "t2"]

\* C16: with two goroutines on one Client, the token a call posts is the one its
\* own GET extracted, or the one the GET of the other running call extracted, or
\* a torn mix of the two; every POST carries what its call read from the field.
\* The state of C16_Witness, where a POST carries the other call's token, is
\* reachable.
C16_TokenOfSomeRunningCall ==
    /\ \A t \in threads :
           th[t].sent # ""
           => \/ th[t].sent = th[t].got
              \/ \E u \in threads \ {t} :
                     /\ th[u].got # ""
                     /\ th[u].got # th[t].got
                     /\ th[t].sent \in {th[u].got, Torn}
    /\ \A k \in Posts : wire[k].token = th[wire[k].by].sent

\* C16 witness: both calls extracted a token, CreateCustomer of goroutine 1
\* extracted t1 and its POST carries t2, the token the Login of goroutine 2
\* extracted
C16_Witness ==
    /\ threads = {1, 2}
    /\ th[1].op = "CreateCustomer"
    /\ th[2].op = "Login"
    /\ th[1].got = "t1"
    /\ th[2].got = "t2"
    /\ \E k \in Posts : wire[k].by = 1 /\ wire[k].token = "t2"
    /\ \E k \in 1..Len(wire) :
           wire[k] = [by |-> 2, method |-> "GET", path |-> "/account/login",
                      token |-> "t2"]

\* C26: an id returned on the fallback path is the id of a row of the listing
\* whose case-folded, trimmed name is the customer's case-folded, trimmed name.
C26_FallbackIdIsListedSameName ==
    (pc = "done" /\ Issued("list") # <<>> /\ result.id # <<>>)
    => \E k \in 1..Len(recipientList.Data) :
           /\ result.id = Itoa(recipientList.Data[k].IdAlici)
           /\ ToLower(TrimSpace(recipientList.Data[k].AliciAdi))
                  = ToLower(TrimSpace(customer.Name))

\* C26 witness: the listing holds a row of another name before the rows of the
\* customer's name, and the id returned after ranking is not the first row's
C26_Witness ==
    /\ pc = "done"
    /\ Len(recipientList.Data) = 3
    /\ recipientList.Data[1].AliciAdi = veli
    /\ customer.Name = ali
    /\ Len(scoredMatches) = 2
    /\ result.id = Itoa(recipientList.Data[3].IdAlici)

\* C27: a detail that was fetched has an empty DistrictID, so the score of its
\* candidate has the 0.2 of the district exactly when the customer's DistrictID
\* is empty: the score is 0.5 times the address similarity plus 0.3 for an equal
\* city plus 0.2 for a customer without district; for a customer with a district
\* it is at most 0.8; and two candidates whose details agree in address and city
\* have equal scores whatever their listed districts.
C27_DistrictTermByCustomerOnly ==
    \A k \in 1..Len(scoredMatches) :
        details[k].err = NoErr
        => LET sim == calculateSimilarityScore(details[k].Address, customer.Address)
               city == IF details[k].CityID = customer.CityID THEN 3 ELSE 0
               district == IF customer.DistrictID = <<>> THEN 2 ELSE 0
           IN  /\ details[k].DistrictID = <<>>
               /\ scoredMatches[k].score.num * 10 * sim.den
                      = (5 * sim.num + (city + district) * sim.den)
                        * scoredMatches[k].score.den
               /\ customer.DistrictID # <<>>
                  => scoredMatches[k].score.num * 10 <= 8 * scoredMatches[k].score.den
               /\ \A l \in 1..Len(scoredMatches) :
                      (/\ details[l].err = NoErr
                       /\ details[l].Address = details[k].Address
                       /\ details[l].CityID = details[k].CityID)
                      => FracEq(scoredMatches[l].score, scoredMatches[k].score)

\* C27 witness: a customer with district 413, two candidates listed with
\* districts 413 and 0 whose details agree: both score 0.8
C27_Witness ==
    /\ pc = "done"
    /\ customer.DistrictID = district413
    /\ Len(scoredMatches) >= 2
    /\ matches[1].IdIlce = 413
    /\ matches[2].IdIlce = 0
    /\ details[1].err = NoErr
    /\ details[2] = details[1]
    /\ FracEq(scoredMatches[1].score, Tenths(8))
    /\ FracEq(scoredMatches[2].score, Tenths(8))

\* case folding and Turkish diacritic folding of one code point
FoldRune(c) ==
    CASE c \in {"I", "I.", "i-", "i"} -> "i"
      [] c \in {"O", "O:", "o:", "o"} -> "o"
      [] OTHER -> LowerRune(c)

\* case folding and Turkish diacritic folding of a name
TurkishFold(s) == [i \in 1..Len(s) |-> FoldRune(s[i])]

\* the provinces of the dataset that a name matches
Matching(cities, name) ==
    { i \in 1..Len(cities) : normalizeString(cities[i].Name) = normalizeString(name) }

\* C21: GetCityID returns the same id for two names that are equal after case
\* folding and Turkish diacritic folding, the id of a province the name matches
\* when there is one, and "-1" for a name that matches no province.
C21_CityIdFolded ==
    output # <<>> /\ "id1" \in DOMAIN output
    => /\ TurkishFold(input.n1) = TurkishFold(input.n2) => output.id1 = output.id2
       /\ Matching(input.cities, input.n1) = {} => output.id1 = "-1"
       /\ Matching(input.cities, input.n1) # {}
          => \E i \in Matching(input.cities, input.n1) :
                 output.id1 = input.cities[i].ID

\* C21 witness: the upper-case dotted and the lower-case dotless spelling of a
\* province listed second both give its id
C21_Witness ==
    /\ output # <<>>
    /\ "id1" \in DOMAIN output
    /\ input.cities = <<[ID |-> "14", Name |-> Bolu], [ID |-> "35", Name |-> Izmir]>>
    /\ input.n1 = <<"I.", "Z", "M", "I.", "R">>
    /\ input.n2 = <<"i-", "z", "m", "i-", "r">>
    /\ output.id1 = "35"
    /\ output.id2 = "35"

\* the ids of the provinces of the dataset are distinct
DistinctIds(cities) ==
    \A i, j \in 1..Len(cities) : cities[i].ID = cities[j].ID => i = j

\* C22 as claimed: for any dataset, the name of the id of a name that was found
\* normalizes like that name.
C22_RoundTripAnyDataset ==
    (output # <<>> /\ "id1" \in DOMAIN output /\ output.id1 # "-1")
    => normalizeString(output.name1) = normalizeString(input.n1)

\* C22 amended: for any dataset whose province ids are distinct, the name of the
\* id of a name that was found normalizes like that name.
C22_RoundTripDistinctIds ==
    (/\ output # <<>>
     /\ "id1" \in DOMAIN output
     /\ output.id1 # "-1"
     /\ DistinctIds(input.cities))
    => normalizeString(output.name1) = normalizeString(input.n1)

\* C22 witness: an upper-case undotted spelling comes back as the dataset's
\* spelling of the province, listed second
C22_Witness ==
    /\ output # <<>>
    /\ "id1" \in DOMAIN output
    /\ input.cities = <<[ID |-> "14", Name |-> Bolu], [ID |-> "35", Name |-> Izmir]>>
    /\ input.n1 = <<"I", "Z", "M", "I", "R">>
    /\ output.id1 = "35"
    /\ output.name1 = Izmir

\* the province's name in the dataset, empty when the dataset does not list it
ProvinceName(data, cityID) ==
    IF \E i \in 1..Len(data.cities) : data.cities[i].ID = cityID
    THEN data.cities[CHOOSE i \in 1..Len(data.cities) : data.cities[i].ID = cityID].Name
    ELSE <<>>

\* the ids of the listed districts whose normalized name is one of names
DistrictIds(data, cityID, names) ==
    { data.districts[cityID][i].ID :
          i \in { j \in 1..Len(data.districts[cityID]) :
                      normalizeString(data.districts[cityID][j].Name) \in names } }

\* the normalized names of the listed districts
DistrictNames(data, cityID) ==
    { normalizeString(data.districts[cityID][i].Name) :
          i \in 1..Len(data.districts[cityID]) }

\* C23 as claimed: for a name that denotes merkez or equals the province's name,
\* GetDistrictID returns a district whose normalized name contains merkez and
\* the province's normalized name when there is one, otherwise a district whose
\* normalized name contains merkez, otherwise the district of that exact
\* normalized name, otherwise -1.
C23_MerkezPriority ==
    (/\ output # <<>>
     /\ "d1" \in DOMAIN output
     /\ input.cityID \in DOMAIN input.districts
     /\ ProvinceName(input, input.cityID) # <<>>
     /\ \/ normalizeString(input.n1) = merkez
        \/ normalizeString(input.n1) = normalizeString(ProvinceName(input, input.cityID)))
    => LET province == normalizeString(ProvinceName(input, input.cityID))
           listed == DistrictNames(input, input.cityID)
           both == { n \in listed : ContainsStr(n, merkez) /\ ContainsStr(n, province) }
           central == { n \in listed : ContainsStr(n, merkez) }
           exact == { n \in listed : n = normalizeString(input.n1) }
       IN  IF DistrictIds(input, input.cityID, both) # {}
           THEN output.d1 \in DistrictIds(input, input.cityID, both)
           ELSE IF DistrictIds(input, input.cityID, central) # {}
           THEN output.d1 \in DistrictIds(input, input.cityID, central)
           ELSE IF DistrictIds(input, input.cityID, exact) # {}
           THEN output.d1 \in DistrictIds(input, input.cityID, exact)
           ELSE output.d1 = -1

\* C23 failing run: Bolu lists "Merkez" before "Bolu Merkez"; asked for
\* "merkez", GetDistrictID returns the first and not the one that names the
\* province
C23_Witness ==
    /\ output # <<>>
    /\ "d1" \in DOMAIN output
    /\ input.cities = <<[ID |-> "14", Name |-> Bolu]>>
    /\ input.cityID = "14"
    /\ input.districts["14"] = <<[ID |-> 1, Name |-> Merkez],
                                 [ID |-> 2, Name |-> Bolu \o <<" ">> \o Merkez]>>
    /\ input.n1 = merkez
    /\ output.d1 = 1

\* C24 as claimed: two district names with the same normal form get the same
\* id, for every list of districts.
C24_DistrictIdFolded ==
    (/\ output # <<>>
     /\ "d1" \in DOMAIN output
     /\ normalizeString(input.n1) = normalizeString(input.n2))
    => output.d1 = output.d2

\* C24 failing run: Bolu lists only "Bolu Merkez"; "merkez" finds it, "MERKEZ"
\* finds nothing
C24_Witness ==
    /\ output # <<>>
    /\ "d1" \in DOMAIN output
    /\ input.cityID = "14"
    /\ input.districts["14"] = <<[ID |-> 2, Name |-> Bolu \o <<" ">> \o Merkez]>>
    /\ input.n1 = merkez
    /\ input.n2 = <<"M", "E", "R", "K", "E", "Z">>
    /\ output.d1 = 2
    /\ output.d2 = -1

\* Login has returned after a token refresh that succeeded and a POST that was
\* answered
LoginAnswered ==
    /\ output # <<>>
    /\ "err" \in DOMAIN output
    /\ input.page.kind = "page"
    /\ input.page.token # ""
    /\ input.post.kind = "page"

\* Login has returned
LoginReturned == output # <<>> /\ "err" \in DOMAIN output

\* C25 as claimed: Login succeeds exactly when the token refresh succeeded and
\* the status of the answer to the POST is 200 or any 3xx.
C25_SuccessOnAnyRedirect ==
    LoginReturned
    => (output.err = NoErr
        <=> /\ LoginAnswered
            /\ (input.post.status = 200 \/ input.post.status \in 300..399))

\* C25 amended: Login succeeds exactly when the token refresh succeeded, the POST
\* was answered and the status of the answer is 200 or 302; every other status,
\* the other redirect statuses included, gives an error that carries the status
\* and the body.
C25_SuccessOn200Or302 ==
    LoginReturned
    => /\ output.err = NoErr
          <=> (LoginAnswered /\ input.post.status \in {200, 302})
       /\ (LoginAnswered /\ input.post.status \notin {200, 302})
          => output.err = <<"login basarisiz, status:">> \o Itoa(input.post.status)
                          \o <<"body:">> \o input.post.body

\* C25 witness: the POST is answered 303 with a body; Login returns the error
\* with 303 and the body
C25_Witness ==
    /\ LoginAnswered
    /\ input.post.status = 303
    /\ input.post.body = OtherText
    /\ output.err = <<"login basarisiz, status:", "3", "0", "3", "body:">> \o OtherText

\* the candidate has been scored
Scored == output # <<>> /\ "scored" \in DOMAIN output

\* a detail with every field empty and no error
EmptyDetail == [Address |-> <<>>, CityID |-> <<>>, DistrictID |-> <<>>, err |-> NoErr]

\* C28: GetRecipientDetail returns an error exactly when the transport failed or
\* the body could not be read, and exactly then the candidate gets the listing
\* score; a page of any status gives no error and is scored in detail mode, and
\* a page without the fields gives the all-empty detail, scored against an empty
\* address and an empty city.
C28_FallbackExactlyOnError ==
    Scored
    => /\ output.detail.err # NoErr <=> input.resp.kind \in {"transport", "read"}
       /\ output.detail.err # NoErr
          => output.scored.score = FallbackScore(input.match, input.customer)
       /\ output.detail.err = NoErr
          => output.scored.score = DetailScore(output.detail, input.customer)
       /\ (/\ input.resp.kind = "page"
           /\ input.resp.SokakAdi = <<>>
           /\ input.resp.CityId = <<>>)
          => /\ output.detail = EmptyDetail
             /\ output.scored.score = DetailScore(EmptyDetail, input.customer)

\* C28 witness: the detail GET of a candidate listed in the customer's city and
\* district is answered 500 with none of the fields: no error, an all-empty
\* detail, and a detail score of 0 where the listing score would be 0.5
C28_Witness ==
    /\ Scored
    /\ input.resp.kind = "page"
    /\ input.resp.status = 500
    /\ input.resp.SokakAdi = <<>>
    /\ input.resp.CityId = <<>>
    /\ output.detail = EmptyDetail
    /\ FracEq(FallbackScore(input.match, input.customer), Tenths(5))
    /\ FracEq(output.scored.score, Tenths(0))

\* the POSTs of goroutine t on the wire
PostsBy(t) == { i \in 1..Len(wire) : wire[i].by = t /\ wire[i].method = "POST" }

\* the call of goroutine t has returned because its token refresh failed
RefreshFailed(t) ==
    /\ th[t].pc = "done"
    /\ EarlyError(th[t].op, th[t].valid) = NoErr
    /\ th[t].got = ""

\* C29: a mutating call whose token refresh fails returns an error and has
\* issued no POST, and the step in which the refresh fails leaves Client.token
\* as it was; the step that stores a refreshed token stores a non-empty one.
C29_FailedRefreshKeepsToken ==
    /\ [](\A t \in threads :
              RefreshFailed(t) => th[t].err # NoErr /\ PostsBy(t) = {})
    /\ [][\A t \in threads :
              /\ (th[t].pc = "get" /\ th'[t].pc = "done")
                 => token' = token /\ Len(wire') = Len(wire) + 1
                    /\ wire'[Len(wire')].method = "GET"
              /\ (th[t].pc = "store" /\ th'[t].pc # "store")
                 => token' # "" /\ token' = th[t].got]_vars

\* C29 witness: a call has returned the error of a page without the token
\* while the client still holds the token of an earlier call, and only the
\* GET of the refresh is on the wire
C29_Witness ==
    /\ threads = {1}
    /\ RefreshFailed(1)
    /\ Contains(th[1].err, <<"token bulunamadi">>)
    /\ token = "t1"
    /\ Len(wire) = 1
    /\ wire[1].method = "GET"
    /\ wire[1].token = ""

\* the invoice POSTs of the running call
InvoicePosts == { i \in 1..Len(reqs) : reqs[i].op = "invoice" }

\* C30: CreateInvoiceWithCustomer with a nil customer returns an error and makes
\* no request; when CreateCustomerOrGetExisting fails it returns an error and
\* makes no invoice POST; an invoice POST is made only after
\* CreateCustomerOrGetExisting succeeded, and carries the id it returned.
C30_InvoiceOnlyForResolvedCustomer ==
    output # NoCall
    => /\ input.nil
          => /\ output = Returned(<<>>, <<"musteri bilgisi gerekli">>)
             /\ reqs = <<>>
       /\ (~input.nil /\ pc = "done" /\ result.err # NoErr)
          => /\ InvoicePosts = {}
             /\ output.pc = "done"
                => output.err = <<"musteri islemi basarisiz:">> \o result.err
       /\ \A i \in InvoicePosts :
              /\ ~input.nil
              /\ pc = "done"
              /\ result.err = NoErr
              /\ reqs[i].form.IdAlici = result.id
              /\ reqs[i].form.IdAlici # <<>>

\* C30 witness: the customer was found in the listing after the portal called
\* it a duplicate, and the invoice posted carries the id of the listing row
C30_Witness ==
    /\ output # NoCall
    /\ output.pc = "done"
    /\ output.err = NoErr
    /\ output.invoiceNo = <<"F1">>
    /\ recipientList.err = NoErr
    /\ Len(matches) = 1
    /\ result.id = Itoa(matches[1].IdAlici)
    /\ InvoicePosts # {}
    /\ \A i \in InvoicePosts : reqs[i].form.IdAlici = result.id

====
